---- MODULE Spec2Model ----
(***************************************************************************)
(* A model of the symbolic execution engine of lib/Core/Executor.cpp:      *)
(* the state set, the process tree, seeds, fork/branch, the Load and Store *)
(* handlers with executeMemoryOperation, termination and the main loop.    *)
(*                                                                         *)
(* Expressions are modelled by their meaning over one symbolic input x     *)
(* that ranges over Dom: a boolean expression is the set of values of x    *)
(* that satisfy it, together with the flag isa<ConstantExpr>.              *)
(***************************************************************************)
EXTENDS Integers, Sequences, FiniteSets, TLC

(* ------------------------------ bounds -------------------------------- *)
NumVals == 3      \* number of values of the symbolic input x
MaxStates == 3    \* ExecutionState objects allocated in one run
MaxSeeds == 2     \* seeds given to the initial state
MaxConds == 3     \* conditions passed to one call of branch
MaxInstr == 3     \* instructions stepped in one run
MaxAddr == 7      \* addresses a Load or Store is given
MaxExtCalls == 2  \* external calls made in one run

Dom == 0 .. (NumVals - 1)
NULL == 0         \* the null ExecutionState pointer
NoMaxForks == -1  \* MaxForks == ~0u
SamplePeriod == 65536  \* checkMemoryUsage: (stats::instructions & 0xFFFF) == 0

VARIABLES
  states,          \* Executor::states
  addedStates,     \* Executor::addedStates
  removedStates,   \* Executor::removedStates
  seedMap,         \* Executor::seedMap
  est,             \* the allocated ExecutionState objects, by pointer
  ptree,           \* Executor::processTree: leaf state -> path from the root
  forks,           \* stats::forks
  replayPosition,  \* Executor::replayPosition
  atMemoryLimit,   \* Executor::atMemoryLimit
  inhibitForking,  \* Executor::inhibitForking
  haltExecution,   \* Executor::haltExecution
  nextId,          \* next fresh ExecutionState pointer
  testCases,       \* calls of interpreterHandler->processTestCase
  emittedErrors,   \* static emittedErrors of terminateStateOnError
  aborted,         \* a failed assert / report_fatal_error ended the process
  opt,             \* command line options
  searcherOn,      \* Executor::searcher is not null
  searcherStates,  \* the states the searcher holds
  instructions,    \* stats::instructions
  OnlySeed,        \* the option OnlySeed, which the engine clears
  symFpName,       \* static symFpName of the Store handler
  fpAddress,       \* static fpAddress of the Store handler
  isSymFpValue,    \* static isSymFpValue of the Store handler
  memObjects,      \* the MemoryObjects, in the order of globalAddresses
  n_heap_l,        \* lower end of the native heap range
  n_heap_h,        \* upper end of the native heap range
  phase,           \* position in Executor::run
  cur,             \* the state the loop selected
  lastState,       \* lastState of the seeding loop
  last_state,      \* last_state of nme_req: the state the native heap follows
  nme_buf,         \* the shared buffer of requests and responses
  kn_indicator,    \* the shared indicator: num and flag
  nativeHeap,      \* the heap of the native helper
  nmeCall,         \* the call of nme_req in progress
  ret              \* observation of the last call: arguments and result

vars == << states, addedStates, removedStates, seedMap, est, ptree, forks,
           replayPosition, atMemoryLimit, inhibitForking, haltExecution,
           nextId, testCases, emittedErrors, aborted, opt, searcherOn,
           searcherStates, instructions, OnlySeed, symFpName, fpAddress,
           isSymFpValue, memObjects, n_heap_l, n_heap_h, phase, cur,
           lastState, last_state, nme_buf, kn_indicator, nativeHeap,
           nmeCall, ret >>

\* the handshake with the native helper
nmeVars == << last_state, nme_buf, kn_indicator, nativeHeap, nmeCall >>

\* what a run is given and never changes
envVars == << opt, memObjects, n_heap_l, n_heap_h >>

\* the position in Executor::run
loopVars == << phase, cur, lastState >>

(* ----------------------------- utilities ------------------------------ *)
Range(q) == { q[i] : i \in 1 .. Len(q) }

Restrict(f, S) == [ x \in S |-> f[x] ]

RECURSIVE RemoveFirst(_, _)
RemoveFirst(q, x) ==
  IF q = << >> THEN << >>
  ELSE IF Head(q) = x THEN Tail(q)
  ELSE << Head(q) >> \o RemoveFirst(Tail(q), x)

IsPrefix(p, q) == Len(p) <= Len(q) /\ SubSeq(q, 1, Len(p)) = p

Min(S) == CHOOSE x \in S : \A y \in S : x <= y

(* ------------------- expressions and the solver ----------------------- *)
ConstBool(b) == [ const |-> TRUE, sat |-> IF b THEN Dom ELSE {} ]

SymCond(S) == [ const |-> FALSE, sat |-> S ]

\* Expr::createIsZero on a boolean expression
createIsZero(c) == [ const |-> c.const, sat |-> Dom \ c.sat ]

\* EqExpr::create(value, condition) for a boolean constant value
EqBool(b, c) == IF b THEN c ELSE createIsZero(c)

\* the assignments that satisfy a constraint store
Models(cons) == { v \in Dom : \A c \in cons : v \in c.sat }

\* Solver::evaluate, the query having succeeded
evaluate(cons, c) ==
  IF c.const THEN (IF c.sat = Dom THEN "True" ELSE "False")
  ELSE IF Models(cons) \subseteq c.sat THEN "True"
  ELSE IF Models(cons) \cap c.sat = {} THEN "False"
  ELSE "Unknown"

\* the model the solver returns: any satisfying assignment (pref steers it)
SolverModel(cons, pref) ==
  IF pref \in Models(cons) THEN pref
  ELSE IF Models(cons) = {} THEN pref
  ELSE CHOOSE v \in Models(cons) : \A w \in Models(cons) : v <= w

\* Solver::getValue of a boolean expression
getValue(cons, c, pref) == SolverModel(cons, pref) \in c.sat

\* siit->assignment.evaluate(condition), a constant
seedEvaluate(seed, c) == seed.val \in c.sat

\* SeedInfo::patchSeed: the seed is changed to satisfy the state's
\* constraints and the condition
patchSeed(seed, cons, c) ==
  LET ok == Models(cons \cup {c})
  IN  IF ok = {} THEN seed
      ELSE [ seed EXCEPT !.val = CHOOSE v \in ok : \A w \in ok : v <= w ]

(* --------------------------- process tree ----------------------------- *)
\* PTree::attach(node of cur, new, cur): the leaf becomes an internal node
\* with two leaves
PTreeAttach(pt, c, n) ==
  [ x \in DOMAIN pt \cup {n} |->
      IF x = n THEN Append(pt[c], 0)
      ELSE IF x = c THEN Append(pt[c], 1)
      ELSE pt[x] ]

\* PTree::remove(leaf): the leaf goes and its single-child parent collapses
PTreeRemove(pt, s) ==
  IF s \notin DOMAIN pt THEN pt
  ELSE LET p == pt[s]
           n == Len(p)
       IN  IF n = 0 THEN Restrict(pt, {})
           ELSE LET q == SubSeq(p, 1, n - 1)
                    sib == Append(q, 1 - p[n])
                IN  [ x \in DOMAIN pt \ {s} |->
                        IF IsPrefix(sib, pt[x])
                        THEN q \o SubSeq(pt[x], n + 1, Len(pt[x]))
                        ELSE pt[x] ]

Leaves(pt) == DOMAIN pt

(* ------------------------- the engine record -------------------------- *)
Eng ==
  [ states |-> states, added |-> addedStates, removed |-> removedStates,
    seedMap |-> seedMap, est |-> est, ptree |-> ptree, forks |-> forks,
    replayPosition |-> replayPosition, atMemoryLimit |-> atMemoryLimit,
    inhibitForking |-> inhibitForking, halt |-> haltExecution,
    nextId |-> nextId, tests |-> testCases, emitted |-> emittedErrors,
    aborted |-> aborted, searcherOn |-> searcherOn,
    searcherStates |-> searcherStates, instructions |-> instructions,
    OnlySeed |-> OnlySeed, symFpName |-> symFpName, fpAddress |-> fpAddress,
    isSymFpValue |-> isSymFpValue ]

SetEng(E) ==
  /\ states' = E.states
  /\ addedStates' = E.added
  /\ removedStates' = E.removed
  /\ seedMap' = E.seedMap
  /\ est' = E.est
  /\ ptree' = E.ptree
  /\ forks' = E.forks
  /\ replayPosition' = E.replayPosition
  /\ atMemoryLimit' = E.atMemoryLimit
  /\ inhibitForking' = E.inhibitForking
  /\ haltExecution' = E.halt
  /\ nextId' = E.nextId
  /\ testCases' = E.tests
  /\ emittedErrors' = E.emitted
  /\ aborted' = E.aborted
  /\ searcherOn' = E.searcherOn
  /\ searcherStates' = E.searcherStates
  /\ instructions' = E.instructions
  /\ OnlySeed' = E.OnlySeed
  /\ symFpName' = E.symFpName
  /\ fpAddress' = E.fpAddress
  /\ isSymFpValue' = E.isSymFpValue

\* ExecutionState::branch(): a deep clone; both sides are one level deeper
stateBranch(E, s, n) ==
  LET deeper == [ E.est[s] EXCEPT !.depth = @ + 1 ]
  IN  [ E EXCEPT !.est = [ x \in DOMAIN E.est \cup {n} |->
                             IF x = n THEN [ deeper EXCEPT !.coveredNew = FALSE ]
                             ELSE IF x = s THEN deeper
                             ELSE E.est[x] ],
                 !.nextId = n + 1 ]

(* ---------------------------- termination ----------------------------- *)
terminateState(E, s) ==
  IF s \notin Range(E.added)
  THEN [ E EXCEPT !.est[s].pc = E.est[s].prevPC,
                  !.removed = Append(@, s) ]
  ELSE [ E EXCEPT !.seedMap = Restrict(@, DOMAIN @ \ {s}),
                  !.added = RemoveFirst(@, s),
                  !.ptree = PTreeRemove(@, s),
                  !.est = Restrict(@, DOMAIN @ \ {s}) ]

processTestCase(E, s, msg, suffix) ==
  [ E EXCEPT !.tests = @ \cup { [ st |-> s, msg |-> msg, suffix |-> suffix ] } ]

\* a test case for every terminated state
outputsTestCase_always(E, s) == TRUE

outputsTestCase(E, s) ==
  \/ ~opt.OnlyOutputStatesCoveringNew
  \/ E.est[s].coveredNew
  \/ (opt.AlwaysOutputSeeds /\ s \in DOMAIN E.seedMap)

terminateStateEarly(E, s, msg) ==
  terminateState(IF outputsTestCase(E, s)
                 THEN processTestCase(E, s, msg, "early") ELSE E, s)

terminateStateOnExit(E, s) ==
  terminateState(IF outputsTestCase(E, s)
                 THEN processTestCase(E, s, "", "") ELSE E, s)

shouldExitOn(reason) == reason \in opt.ExitOnErrorType

\* kmodule->internalFunctions: the functions of the engine's runtime
internalFunctions == { "klee_internal" }

\* Executor::getLastNonKleeInternalInstruction, the loop of lines 4167-4178
\* from frame i down to the frame above the outermost one; a frame holds
\* its function kf and the call instruction that made it, which lies in
\* the function of the frame below.  ii = NULL: no instruction yet.
RECURSIVE windUp(_, _, _)
windUp(stack, i, ii) ==
  IF i < 2 THEN ii
  ELSE IF stack[i - 1].kf \in internalFunctions
  THEN windUp(stack, i - 1, NULL)
  ELSE windUp(stack, i - 1, IF ii = NULL THEN stack[i].caller ELSE ii)

getLastNonKleeInternalInstruction(st) ==
  LET top == Len(st.stack)
      ii == windUp(st.stack, top,
                   IF st.stack[top].kf \notin internalFunctions
                   THEN st.prevPC ELSE NULL)
  IN  IF ii = NULL THEN st.prevPC ELSE ii

\* terminateStateOnError emitting whether or not the pair was emitted
terminateStateOnError_noDedup(E, s, msg, reason) ==
  LET E3 == terminateState(processTestCase(E, s, msg, reason), s)
  IN  IF shouldExitOn(reason) THEN [ E3 EXCEPT !.halt = TRUE ] ELSE E3

terminateStateOnError(E, s, msg, reason) ==
  LET lastInst == getLastNonKleeInternalInstruction(E.est[s])
      emit == opt.EmitAllErrors \/ << lastInst, msg >> \notin E.emitted
      E1 == IF opt.EmitAllErrors THEN E
            ELSE [ E EXCEPT !.emitted = @ \cup { << lastInst, msg >> } ]
      E2 == IF emit THEN processTestCase(E1, s, msg, reason) ELSE E1
      E3 == terminateState(E2, s)
  IN  IF shouldExitOn(reason) THEN [ E3 EXCEPT !.halt = TRUE ] ELSE E3

(* ---------------------------- constraints ----------------------------- *)
addConstraint(E, s, c) ==
  IF c.const
  THEN IF c.sat = Dom THEN E ELSE [ E EXCEPT !.aborted = TRUE ]
  ELSE LET cons == E.est[s].cons
           E1 == IF s \in DOMAIN E.seedMap
                 THEN [ E EXCEPT !.seedMap[s] =
                          { IF seedEvaluate(sd, c) THEN sd
                            ELSE patchSeed(sd, cons, c) : sd \in @ } ]
                 ELSE E
       IN  [ E1 EXCEPT !.est[s].cons = @ \cup {c} ]

(* -------------------------------- fork -------------------------------- *)
\* Executor::fork, lines 1121-1146: past the static fork/solve limits the
\* condition is replaced by one of its feasible values
forkStatic(E, s, cond, isSeeding, nd) ==
  IF ~isSeeding /\ ~cond.const /\ opt.MaxStaticPct /\ nd.staticLimit
  THEN LET value == getValue(E.est[s].cons, cond, nd.val)
       IN  [ E |-> addConstraint(E, s, EqBool(value, cond)),
             cond |-> ConstBool(value) ]
  ELSE [ E |-> E, cond |-> cond ]

\* replay-path mode reading the recorded branch without moving on
forkReplay_noAdvance(E, s, cond, res) ==
  IF E.replayPosition >= Len(opt.replayPath)
  THEN [ E |-> [ E EXCEPT !.aborted = TRUE ], res |-> "Abort" ]
  ELSE LET branch == opt.replayPath[E.replayPosition + 1]
       IN  IF res = "True"
           THEN IF branch THEN [ E |-> E, res |-> "True" ]
                ELSE [ E |-> [ E EXCEPT !.aborted = TRUE ], res |-> "Abort" ]
           ELSE IF res = "False"
           THEN IF ~branch THEN [ E |-> E, res |-> "False" ]
                ELSE [ E |-> [ E EXCEPT !.aborted = TRUE ], res |-> "Abort" ]
           ELSE IF branch
           THEN [ E |-> addConstraint(E, s, cond), res |-> "True" ]
           ELSE [ E |-> addConstraint(E, s, createIsZero(cond)),
                  res |-> "False" ]

\* lines 1161-1179: replay-path mode takes the recorded branch
forkReplay(E, s, cond, res) ==
  IF E.replayPosition >= Len(opt.replayPath)
  THEN [ E |-> [ E EXCEPT !.aborted = TRUE ], res |-> "Abort" ]
  ELSE LET branch == opt.replayPath[E.replayPosition + 1]
           E1 == [ E EXCEPT !.replayPosition = @ + 1 ]
       IN  IF res = "True"
           THEN IF branch THEN [ E |-> E1, res |-> "True" ]
                ELSE [ E |-> [ E1 EXCEPT !.aborted = TRUE ], res |-> "Abort" ]
           ELSE IF res = "False"
           THEN IF ~branch THEN [ E |-> E1, res |-> "False" ]
                ELSE [ E |-> [ E1 EXCEPT !.aborted = TRUE ], res |-> "Abort" ]
           ELSE IF branch
           THEN [ E |-> addConstraint(E1, s, cond), res |-> "True" ]
           ELSE [ E |-> addConstraint(E1, s, createIsZero(cond)),
                  res |-> "False" ]

\* forkInhibited without the test of forkDisabled
forkInhibited_noForkDisabled(E, s) ==
  \/ (opt.MaxMemoryInhibit /\ E.atMemoryLimit)
  \/ E.inhibitForking
  \/ (opt.MaxForks /= NoMaxForks /\ E.forks >= opt.MaxForks)

\* lines 1183-1186: forking is not allowed
forkInhibited(E, s) ==
  \/ (opt.MaxMemoryInhibit /\ E.atMemoryLimit)
  \/ E.est[s].forkDisabled
  \/ E.inhibitForking
  \/ (opt.MaxForks /= NoMaxForks /\ E.forks >= opt.MaxForks)

\* forkPick with the constraint of the other branch on the false side
forkPick_samePolarity(E, s, cond, rng) ==
  [ E |-> addConstraint(E, s, cond), res |-> IF rng THEN "True" ELSE "False" ]

\* lines 1197-1204: one branch is picked by theRNG.getBool()
forkPick(E, s, cond, rng) ==
  IF rng
  THEN [ E |-> addConstraint(E, s, cond), res |-> "True" ]
  ELSE [ E |-> addConstraint(E, s, createIsZero(cond)), res |-> "False" ]

\* lines 1211-1237: the branch is fixed when the seeds all go one way
forkSeedFix(E, s, cond) ==
  LET trueSeed == \E sd \in E.seedMap[s] : seedEvaluate(sd, cond)
      falseSeed == \E sd \in E.seedMap[s] : ~seedEvaluate(sd, cond)
  IN  IF trueSeed /\ falseSeed THEN [ E |-> E, res |-> "Unknown" ]
      ELSE IF ~(trueSeed \/ falseSeed)
      THEN [ E |-> [ E EXCEPT !.aborted = TRUE ], res |-> "Abort" ]
      ELSE [ E |-> addConstraint(E, s, IF trueSeed THEN cond
                                       ELSE createIsZero(cond)),
             res |-> IF trueSeed THEN "True" ELSE "False" ]

\* forkSeeds handing the false state a copy of every seed
forkSeeds_copyAll(E, s, n, cond) ==
  IF s \notin DOMAIN E.seedMap THEN E
  ELSE [ E EXCEPT !.seedMap =
           [ x \in DOMAIN E.seedMap \cup {n} |-> IF x = n THEN E.seedMap[s]
                                                ELSE E.seedMap[x] ] ]

\* lines 1272-1304: the seeds of the parent are split between the two sides
forkSeeds(E, s, n, cond) ==
  IF s \notin DOMAIN E.seedMap THEN E
  ELSE LET seeds == E.seedMap[s]
           trueSeeds == { sd \in seeds : seedEvaluate(sd, cond) }
           falseSeeds == seeds \ trueSeeds
           keys == (DOMAIN E.seedMap \ {s})
                     \cup (IF trueSeeds = {} THEN {} ELSE {s})
                     \cup (IF falseSeeds = {} THEN {} ELSE {n})
           swapInfo == trueSeeds = {}
           E1 == [ E EXCEPT !.seedMap =
                     [ x \in keys |-> IF x = s THEN trueSeeds
                                      ELSE IF x = n THEN falseSeeds
                                      ELSE E.seedMap[x] ] ]
       IN  IF swapInfo
           THEN [ E1 EXCEPT !.est[s].coveredNew = E.est[n].coveredNew,
                            !.est[n].coveredNew = E.est[s].coveredNew ]
           ELSE E1

\* lines 1327-1333: past MaxDepth both sides are terminated
forkDepth(E, s, n) ==
  IF opt.MaxDepth /= 0 /\ opt.MaxDepth <= E.est[s].depth
  THEN [ E |-> terminateStateEarly(
                 terminateStateEarly(E, s, "max-depth exceeded."),
                 n, "max-depth exceeded."),
         first |-> NULL, second |-> NULL ]
  ELSE [ E |-> E, first |-> s, second |-> n ]

\* forkSplit without the attach to the process tree
forkSplit_noAttach(E, s, cond) ==
  forkDepth(
    addConstraint(
      addConstraint(
        forkSeeds([ stateBranch([ E EXCEPT !.forks = @ + 1 ], s, E.nextId)
                      EXCEPT !.added = Append(@, E.nextId) ],
                  s, E.nextId, cond),
        s, cond),
      E.nextId, createIsZero(cond)),
    s, E.nextId)

\* lines 1263-1336: the state is split in two
forkSplit(E, s, cond) ==
  forkDepth(
    addConstraint(
      addConstraint(
        [ forkSeeds([ stateBranch([ E EXCEPT !.forks = @ + 1 ], s, E.nextId)
                        EXCEPT !.added = Append(@, E.nextId) ],
                    s, E.nextId, cond)
            EXCEPT !.ptree = PTreeAttach(@, s, E.nextId) ],
        s, cond),
      E.nextId, createIsZero(cond)),
    s, E.nextId)

\* lines 1161-1207: the branch taken when the state has no seeds
forkDecide(E, s, cond, isInternal, isSeeding, res0, nd) ==
  IF isSeeding THEN [ E |-> E, res |-> res0 ]
  ELSE IF opt.hasReplayPath /\ ~isInternal THEN forkReplay(E, s, cond, res0)
  ELSE IF res0 = "Unknown" /\ forkInhibited(E, s)
  THEN forkPick(E, s, cond, nd.rng)
  ELSE [ E |-> E, res |-> res0 ]

\* lines 1211-1237
forkFix(a, s, cond, isSeeding) ==
  IF /\ isSeeding
     /\ (a.E.est[s].forkDisabled \/ opt.OnlyReplaySeeds)
     /\ a.res = "Unknown"
  THEN forkSeedFix(a.E, s, cond)
  ELSE a

forkResult(sp, res0) ==
  [ E |-> sp.E, first |-> sp.first, second |-> sp.second, res0 |-> res0 ]

\* fork splitting the state whatever the solver answered
forkFinish_alwaysSplit(b, s, cond, res0) ==
  IF b.res = "Abort"
  THEN [ E |-> b.E, first |-> NULL, second |-> NULL, res0 |-> res0 ]
  ELSE forkResult(forkSplit(b.E, s, cond), res0)

\* lines 1244-1336: what fork returns
forkFinish(b, s, cond, res0) ==
  IF b.res = "Abort"
  THEN [ E |-> b.E, first |-> NULL, second |-> NULL, res0 |-> res0 ]
  ELSE IF b.res = "True"
  THEN [ E |-> b.E, first |-> s, second |-> NULL, res0 |-> res0 ]
  ELSE IF b.res = "False"
  THEN [ E |-> b.E, first |-> NULL, second |-> s, res0 |-> res0 ]
  ELSE forkResult(forkSplit(b.E, s, cond), res0)

\* fork going on with an answer although the solver gave none
forkSolve_noTimeout(st, s, isInternal, isSeeding, nd) ==
  forkFinish(
    forkFix(forkDecide(st.E, s, st.cond, isInternal, isSeeding,
                       evaluate(st.E.est[s].cons, st.cond), nd),
            s, st.cond, isSeeding),
    s, st.cond, evaluate(st.E.est[s].cons, st.cond))

\* lines 1148-1157: the solver is asked; on a failure the state is ended
forkSolve(st, s, isInternal, isSeeding, nd) ==
  IF ~nd.solverOk
  THEN [ E |-> terminateStateEarly(
                 [ st.E EXCEPT !.est[s].pc = st.E.est[s].prevPC ], s,
                 "Query timed out (fork)."),
         first |-> NULL, second |-> NULL, res0 |-> "Timeout" ]
  ELSE forkFinish(
         forkFix(forkDecide(st.E, s, st.cond, isInternal, isSeeding,
                            evaluate(st.E.est[s].cons, st.cond), nd),
                 s, st.cond, isSeeding),
         s, st.cond, evaluate(st.E.est[s].cons, st.cond))

\* Executor::fork; the result carries the solver's answer res0
fork(E, s, cond0, isInternal, nd) ==
  forkSolve(forkStatic(E, s, cond0, s \in DOMAIN E.seedMap, nd), s,
            isInternal, s \in DOMAIN E.seedMap, nd)

(* ------------------------------- branch ------------------------------- *)
\* Executor::branch, lines 1053-1059: each new state is cloned from a
\* random earlier entry of result
RECURSIVE branchClone(_, _, _, _, _)
branchClone(E, result, i, N, par) ==
  IF i >= N THEN [ E |-> E, result |-> result ]
  ELSE LET es == result[(par % i) + 1]
           n == E.nextId
           E1 == stateBranch(E, es, n)
           E2 == [ E1 EXCEPT !.added = Append(@, n),
                             !.ptree = PTreeAttach(@, es, n) ]
       IN  branchClone(E2, Append(result, n), i + 1, N, par)

\* lines 1039-1060
branchStates(E, s, N, nd) ==
  IF opt.MaxForks /= NoMaxForks /\ E.forks >= opt.MaxForks
  THEN [ E |-> E,
         result |-> [ i \in 1 .. N |-> IF i = (nd.next % N) + 1 THEN s
                                       ELSE NULL ] ]
  ELSE branchClone([ E EXCEPT !.forks = @ + (N - 1) ], << s >>, 1, N, nd.par)

\* lines 1075-1092: the condition a seed goes with
seedTarget(sd, conds, pick) ==
  LET N == Len(conds)
      hits == { i \in 1 .. N : seedEvaluate(sd, conds[i]) }
  IN  IF hits = {} THEN (pick % N) + 1
      ELSE CHOOSE i \in hits : \A j \in hits : i <= j

\* lines 1066-1097
branchSeeds(E, s, conds, result, nd) ==
  IF s \notin DOMAIN E.seedMap THEN E
  ELSE LET seeds == E.seedMap[s]
           got(r) == { sd \in seeds :
                         result[seedTarget(sd, conds, nd.seedPick)] = r }
           keys == (DOMAIN E.seedMap \ {s})
                     \cup { r \in Range(result) \ {NULL} : got(r) /= {} }
       IN  [ E EXCEPT !.seedMap =
               [ x \in keys |-> IF x \in Range(result) THEN got(x)
                                ELSE E.seedMap[x] ] ]

\* lines 1099-1106
RECURSIVE branchOnlyReplay(_, _, _)
branchOnlyReplay(E, result, i) ==
  IF i > Len(result) THEN [ E |-> E, result |-> result ]
  ELSE IF result[i] /= NULL /\ result[i] \notin DOMAIN E.seedMap
  THEN branchOnlyReplay(terminateState(E, result[i]),
                        [ result EXCEPT ![i] = NULL ], i + 1)
  ELSE branchOnlyReplay(E, result, i + 1)

\* branchConstrain giving every state the first condition
RECURSIVE branchConstrain_first(_, _, _, _)
branchConstrain_first(E, conds, result, i) ==
  IF i > Len(result) THEN E
  ELSE IF result[i] /= NULL
  THEN branchConstrain_first(addConstraint(E, result[i], conds[1]), conds,
                             result, i + 1)
  ELSE branchConstrain_first(E, conds, result, i + 1)

\* lines 1109-1111
RECURSIVE branchConstrain(_, _, _, _)
branchConstrain(E, conds, result, i) ==
  IF i > Len(result) THEN E
  ELSE IF result[i] /= NULL
  THEN branchConstrain(addConstraint(E, result[i], conds[i]), conds,
                       result, i + 1)
  ELSE branchConstrain(E, conds, result, i + 1)

\* lines 1099-1106, under the test of line 1068
branchReplay(E, result, seeded) ==
  IF seeded /\ opt.OnlyReplaySeeds THEN branchOnlyReplay(E, result, 1)
  ELSE [ E |-> E, result |-> result ]

branchResult(b, conds) ==
  [ E |-> branchConstrain(b.E, conds, b.result, 1), result |-> b.result ]

branchRest(a, s, conds, seeded, nd) ==
  branchResult(branchReplay(branchSeeds(a.E, s, conds, a.result, nd),
                            a.result, seeded), conds)

\* Executor::branch
branch(E, s, conds, nd) ==
  branchRest(branchStates(E, s, Len(conds), nd), s, conds,
             s \in DOMAIN E.seedMap, nd)

(* ---------------------------- updateStates ---------------------------- *)
\* Searcher::update
searcherUpdate(S, added, removed) == (S \cup Range(added)) \ Range(removed)

\* updateRemoved without the erase of the seedMap entry
RECURSIVE updateRemoved_keepSeeds(_, _)
updateRemoved_keepSeeds(E, q) ==
  IF q = << >> THEN E
  ELSE LET es == Head(q)
       IN  IF es \notin E.states THEN [ E EXCEPT !.aborted = TRUE ]
           ELSE updateRemoved_keepSeeds(
                  [ E EXCEPT !.states = @ \ {es},
                             !.ptree = PTreeRemove(@, es),
                             !.est = Restrict(@, DOMAIN @ \ {es}) ],
                  Tail(q))

\* Executor::updateStates, lines 3818-3831: the removed states are erased
\* one by one; a state that is not in states fails the assertion
RECURSIVE updateRemoved(_, _)
updateRemoved(E, q) ==
  IF q = << >> THEN E
  ELSE LET es == Head(q)
       IN  IF es \notin E.states THEN [ E EXCEPT !.aborted = TRUE ]
           ELSE updateRemoved(
                  [ E EXCEPT !.states = @ \ {es},
                             !.seedMap = Restrict(@, DOMAIN @ \ {es}),
                             !.ptree = PTreeRemove(@, es),
                             !.est = Restrict(@, DOMAIN @ \ {es}) ],
                  Tail(q))

updateStates(E) ==
  LET E1 == IF E.searcherOn
            THEN [ E EXCEPT !.searcherStates =
                              searcherUpdate(@, E.added, E.removed) ]
            ELSE E
      E2 == [ E1 EXCEPT !.states = @ \cup Range(E.added), !.added = << >> ]
      E3 == updateRemoved(E2, E2.removed)
  IN  IF E3.aborted THEN E3 ELSE [ E3 EXCEPT !.removed = << >> ]

(* ------------------------------- memory -------------------------------- *)
\* An expression of w bytes is the sequence of its bytes.  A byte is a
\* constant, or the read at index v of the symbolic array arr (k is the
\* suffix that makes the array's name unique).
ConstByte(n) == [ arr |-> "", k |-> 0, v |-> n ]

SymByte(arr, k, i) == [ arr |-> arr, k |-> k, v |-> i ]

\* isa<ConstantExpr>(value)
isConstantExpr(value) == \A i \in 1 .. Len(value) : value[i].arr = ""

\* an address expression: a constant, or an expression over the input
ConstAddr(a) == [ const |-> TRUE, a |-> a ]

SymAddr == [ const |-> FALSE, a |-> 0 ]

\* ObjectState::read
read(os, offset, bytes) == SubSeq(os.cells, offset + 1, offset + bytes)

\* ObjectState::write
write(os, offset, value) ==
  [ os EXCEPT !.cells =
      [ i \in 1 .. Len(os.cells) |->
          IF i > offset /\ i <= offset + Len(value) THEN value[i - offset]
          ELSE os.cells[i] ] ]

\* AddressSpace::resolveOne on a constant address: the objects bound at it
resolveOne(E, s, a) ==
  { i \in 1 .. Len(memObjects) :
      /\ memObjects[i].name \in DOMAIN E.est[s].mem
      /\ memObjects[i].address <= a
      /\ a < memObjects[i].address + memObjects[i].size }

\* MemoryObject::getBoundsCheckOffset
getBoundsCheckOffset(mo, offset, bytes) == offset + bytes <= mo.size

\* Executor::bindLocal
bindLocal(E, s, value) == [ E EXCEPT !.est[s].local = value ]

\* the fork of an internal, constant condition draws nothing from outside
NoNd == [ solverOk |-> TRUE, rng |-> FALSE, staticLimit |-> FALSE, val |-> 0 ]

\* Executor::executeMemoryOperation, lines 4972-4992: the states are
\* visited in the order of the set; the seedMap entry looked up is the one
\* of the state that executes
RECURSIVE onlySeedExit(_, _, _)
onlySeedExit(E, s, todo) ==
  IF todo = {} THEN [ E EXCEPT !.OnlySeed = FALSE ]
  ELSE LET es == Min(todo)
       IN  onlySeedExit(
             IF s \in DOMAIN E.seedMap
             THEN [ E EXCEPT !.seedMap = Restrict(@, DOMAIN @ \ {s}) ]
             ELSE terminateState(E, es),
             s, todo \ {es})

\* lines 4853-4875: the access is inside the object
memoryAccess(E, s, isWrite, mo, offset, value, bytes) ==
  LET os == E.est[s].mem[mo.name]
  IN  IF isWrite
      THEN IF os.readOnly
           THEN terminateStateOnError(E, s, "memory error: object read only",
                                      "ReadOnly")
           ELSE [ E EXCEPT !.est[s].mem[mo.name] = write(os, offset, value) ]
      ELSE bindLocal(E, s, read(os, offset, bytes))

\* lines 4996-5029: outside the native heap range the state is ended; a
\* write returns and a read binds bytes of 0x88
memoryOverflow(E, s, isWrite, a, bytes) ==
  LET E2 == IF a <= n_heap_l \/ a > n_heap_h
            THEN terminateStateOnError(E, s,
                   "++++++++++++++++++memory error: out of bound pointer",
                   "Ptr")
            ELSE E
  IN  IF isWrite THEN E2
      ELSE bindLocal(E2, s, [ i \in 1 .. bytes |-> ConstByte(136) ])

\* lines 4945-5035: no object holds the access.  The address is constant,
\* so resolve is complete.
memoryUnbound(E, s, isWrite, a, bytes) ==
  memoryOverflow(IF E.OnlySeed THEN onlySeedExit(E, s, E.states) ELSE E,
                 s, isWrite, a, bytes)

\* MemoryObject::getBoundsCheckPointer on a constant address
getBoundsCheckPointer(mo, a, bytes) ==
  ConstBool(a >= mo.address /\ a + bytes <= mo.address + mo.size)

\* lines 4901-4917: the bound side of the fork makes the access
memoryBound(branches, isWrite, mo, a, value, bytes) ==
  IF branches.first /= NULL
  THEN memoryAccess(branches.E, branches.first, isWrite, mo, a - mo.address,
                    value, bytes)
  ELSE branches.E

\* lines 4892-4922: one internal fork per object of the resolution list;
\* the result is the engine and the state left unbound
RECURSIVE memoryResolve(_, _, _, _, _, _, _)
RECURSIVE memoryResolveNext(_, _, _, _, _, _)
memoryResolve(E, unbound, rl, isWrite, a, value, bytes) ==
  IF rl = {} \/ unbound = NULL THEN [ E |-> E, unbound |-> unbound ]
  ELSE memoryResolveNext(
         fork(E, unbound, getBoundsCheckPointer(memObjects[Min(rl)], a, bytes),
              TRUE, NoNd),
         rl, isWrite, a, value, bytes)

memoryResolveNext(branches, rl, isWrite, a, value, bytes) ==
  memoryResolve(memoryBound(branches, isWrite, memObjects[Min(rl)], a, value,
                            bytes),
                branches.second, rl \ { Min(rl) }, isWrite, a, value, bytes)

\* lines 4945-5135
memoryError(r, isWrite, a, bytes) ==
  IF r.unbound = NULL THEN r.E
  ELSE memoryUnbound(r.E, r.unbound, isWrite, a, bytes)

\* lines 4826-4853: resolveOne finds an object and the access is inside it
memoryFast(E, s, a, bytes) ==
  \E i \in resolveOne(E, s, a) :
    getBoundsCheckOffset(memObjects[i], a - memObjects[i].address, bytes)

\* Executor::executeMemoryOperation
executeMemoryOperation(E, s, isWrite, address, value, bytes) ==
  IF ~address.const
  THEN terminateStateOnError(E, s,
         "exploit succeed: memory operation with symbolic addr", "Ptr")
  ELSE IF memoryFast(E, s, address.a, bytes)
  THEN memoryAccess(E, s, isWrite, memObjects[Min(resolveOne(E, s, address.a))],
                    address.a - memObjects[Min(resolveOne(E, s, address.a))].address,
                    value, bytes)
  ELSE memoryError(memoryResolve(E, s, resolveOne(E, s, address.a), isWrite,
                                 address.a, value, bytes),
                   isWrite, address.a, bytes)

\* Executor::executeMakeSymbolic without a replay test: the object is bound
\* to a fresh, writable object state over a new array.  seedInput is what
\* the seeds hold for the object.
executeMakeSymbolic(E, s, mo, name, seedInput) ==
  LET id == Min({ k \in 0 .. Cardinality(E.est[s].arrayNames) :
                    [ arr |-> name, k |-> k ] \notin E.est[s].arrayNames })
      os == [ readOnly |-> FALSE,
              cells |-> [ i \in 1 .. mo.size |-> SymByte(name, id, i - 1) ] ]
      E1 == [ E EXCEPT !.est[s].arrayNames = @ \cup { [ arr |-> name, k |-> id ] },
                       !.est[s].mem[mo.name] = os ]
  IN  IF s \in DOMAIN E.seedMap /\ seedInput = "none"
      THEN terminateStateOnError(E1, s, "ran out of inputs during seeding",
                                 "User")
      ELSE IF s \in DOMAIN E.seedMap /\ seedInput = "mismatch"
      THEN terminateStateOnError(E1, s, "replace size mismatch", "User")
      ELSE E1

(* ------------------------- Load and Store ------------------------------ *)
\* Instruction::Load
executeLoad(E, s, base, bytes) ==
  executeMemoryOperation(E, s, FALSE, base, << >>, bytes)

\* the name the Store handler gives the array of a global
symName(mo) == "sym_" \o mo.name \o "_" \o ToString(mo.address)

\* Store, lines 2928-2993: every pointer-typed global with a plain name is
\* made symbolic and its address recorded
RECURSIVE storeSymbolic(_, _, _, _)
storeSymbolic(E, s, i, seedInput) ==
  IF i > Len(memObjects) THEN E
  ELSE LET mo == memObjects[i]
       IN  IF mo.isPointerTy /\ mo.plainName /\ resolveOne(E, s, mo.address) /= {}
           THEN LET E1 == executeMakeSymbolic(E, s, mo, symName(mo), seedInput)
                IN  storeSymbolic(
                      [ E1 EXCEPT !.symFpName = Append(@, symName(mo)),
                                  !.fpAddress = Append(@, mo.address) ],
                      s, i + 1, seedInput)
           ELSE storeSymbolic(E, s, i + 1, seedInput)

\* Store, lines 3093-3268: a constant is stored to a function pointer.
\* Nothing is written.  When the operand is the result of an instruction
\* the backtracing loop reads the uninitialised inst_temp: the process
\* crashes or goes on.
storeBacktrace(E, s, operand, ub) ==
  IF operand = "instruction" /\ ub = "crash"
  THEN [ E EXCEPT !.aborted = TRUE ]
  ELSE E

\* line 3060: the test of situation 2, whose body writes
storeWrites2(value, isFpBase) == ~isConstantExpr(value) /\ isFpBase

\* line 3093: situations 1 and 4 skip the write, every other store writes
\* in the else branch of line 3269
storeWrites14(value, isFpBase) == ~(isFpBase /\ isConstantExpr(value))

\* the calls of executeMemoryOperation with isWrite of one Store to a
\* constant address
storeWrites(value, isFpBase) ==
  (IF storeWrites2(value, isFpBase) THEN 1 ELSE 0)
    + (IF storeWrites14(value, isFpBase) THEN 1 ELSE 0)

\* Store, lines 3057-3090 (situation 2): a symbolic value is stored to a
\* function pointer
storeSituation2(E, s, base, value, isFpBase) ==
  IF storeWrites2(value, isFpBase)
  THEN executeMemoryOperation(E, s, TRUE, base, value, Len(value))
  ELSE E

\* Store, lines 3092-3271 (situations 1 and 4, and the plain store)
storeSituation14(E, s, base, value, operand, ub, isFpBase) ==
  IF ~storeWrites14(value, isFpBase)
  THEN storeBacktrace(E, s, operand, ub)
  ELSE executeMemoryOperation(E, s, TRUE, base, value, Len(value))

\* scan2: the arrays a value reads
scan2(value) ==
  { [ arr |-> value[i].arr, k |-> value[i].k ] :
      i \in { j \in 1 .. Len(value) : value[j].arr /= "" } }

\* Store, lines 3273-3308 (situation 3): the inner loop leaves after the
\* first name of symFpName
storeSituation3(E, addr, value, isFpBase) ==
  LET found == /\ ~isConstantExpr(value)
               /\ E.symFpName /= << >>
               /\ [ arr |-> E.symFpName[1], k |-> 0 ] \in scan2(value)
      sym == E.isSymFpValue \/ found
  IN  [ E EXCEPT !.isSymFpValue = sym,
                 !.fpAddress = IF ~isFpBase /\ ~isConstantExpr(value) /\ sym
                               THEN Append(@, addr) ELSE @ ]

\* Store, lines 3010-3321: the base is constant
storeConstant(E, s, base, value, operand, ub) ==
  storeSituation3(
    storeSituation14(
      storeSituation2(E, s, base, value, base.a \in Range(E.fpAddress)),
      s, base, value, operand, ub, base.a \in Range(E.fpAddress)),
    base.a, value, base.a \in Range(E.fpAddress))

\* Instruction::Store
executeStore(E, s, base, value, operand, ub, seedInput) ==
  IF ~base.const
  THEN storeSymbolic(
         [ E EXCEPT !.est[s].WriteExploitCapability =
                      @ \cup { [ base |-> base, value |-> value ] } ],
         s, 1, seedInput)
  ELSE storeConstant(E, s, base, value, operand, ub)

(* ------------------------- Br, Switch, exit --------------------------- *)
\* stepInstruction without the assignment to prevPC
stepInstruction_keepPrevPC(E, s) ==
  [ E EXCEPT !.instructions = @ + 1,
             !.est[s].steppedInstructions = @ + 1,
             !.est[s].pc = @ + 1,
             !.halt = @ \/ (E.instructions + 1 = opt.MaxInstructions) ]

\* Executor::stepInstruction
stepInstruction(E, s) ==
  [ E EXCEPT !.instructions = @ + 1,
             !.est[s].steppedInstructions = @ + 1,
             !.est[s].prevPC = E.est[s].pc,
             !.est[s].pc = @ + 1,
             !.halt = @ \/ (E.instructions + 1 = opt.MaxInstructions) ]

\* Executor::transferToBasicBlock: dst is the entry of the block
transferToBasicBlock(E, s, dst) == [ E EXCEPT !.est[s].pc = dst ]

\* Br, lines 1960-1963
brFirst(branches) ==
  IF branches.first /= NULL
  THEN transferToBasicBlock(branches.E, branches.first, 10)
  ELSE branches.E

\* the false state sent to successor 0 as well
brSecond_successor0(E, second) ==
  IF second /= NULL THEN transferToBasicBlock(E, second, 10) ELSE E

brSecond(E, second) ==
  IF second /= NULL THEN transferToBasicBlock(E, second, 20) ELSE E

brTransfer(branches) == brSecond(brFirst(branches), branches.second)

\* Instruction::Br on a condition
executeBr(E, s, cond, nd) == brTransfer(fork(E, s, cond, FALSE, nd))

\* Executor::toUnique on the input x: it is a constant when the constraints
\* leave it one value
toUnique(E, s) == Cardinality(Models(E.est[s].cons)) = 1

\* OrExpr::create
OrExpr(a, b) == [ const |-> a.const /\ b.const, sat |-> a.sat \cup b.sat ]

\* a switch instruction si: succ gives the successor block of each case
\* value, dflt is the default destination.  SwitchInst::findCaseValue and
\* getSuccessor, lines 2051-2055
findCaseValue(si, v) == IF v \in DOMAIN si.succ THEN si.succ[v] ELSE si.dflt

\* lines 2076-2080: the default value excludes the cases leading elsewhere
switchDefault(si) ==
  LET elsewhere == { v \in DOMAIN si.succ : si.succ[v] /= si.dflt }
  IN  IF elsewhere = {} THEN ConstBool(TRUE) ELSE SymCond(Dom \ elsewhere)

\* lines 2106-2116 on every feasible case leading to the default block
switchCase_ownCondition(t, bb, match) ==
  [ bbOrder |-> Append(t.bbOrder, bb),
    branchTargets |-> (bb :> match) @@ t.branchTargets ]

\* lines 2106-2116: the condition of a block collects its case values
switchCase(t, bb, match) ==
  IF bb \in DOMAIN t.branchTargets
  THEN [ t EXCEPT !.branchTargets[bb] = OrExpr(match, @) ]
  ELSE [ bbOrder |-> Append(t.bbOrder, bb),
         branchTargets |-> (bb :> OrExpr(match, ConstBool(FALSE)))
                              @@ t.branchTargets ]

\* lines 2079-2117: the cases in the order of their values
RECURSIVE switchCases(_, _, _, _, _)
switchCases(E, s, si, cases, t) ==
  IF cases = {} THEN t
  ELSE LET v == Min(cases)
           match == SymCond({v})
       IN  switchCases(E, s, si, cases \ {v},
             IF si.succ[v] = si.dflt THEN t
             ELSE IF Models(E.est[s].cons) \cap match.sat = {} THEN t
             ELSE switchCase(t, si.succ[v], match))

\* lines 2119-2131: the default is handled last
switchTargets(E, s, si) ==
  LET t == switchCases(E, s, si, DOMAIN si.succ,
                       [ bbOrder |-> << >>, branchTargets |-> << >> ])
      defaultValue == switchDefault(si)
  IN  IF Models(E.est[s].cons) \cap defaultValue.sat = {} THEN t
      ELSE IF si.dflt \in DOMAIN t.branchTargets THEN t
      ELSE [ bbOrder |-> Append(t.bbOrder, si.dflt),
             branchTargets |-> (si.dflt :> defaultValue) @@ t.branchTargets ]

\* lines 2135-2140
switchConditions(E, s, si) ==
  LET t == switchTargets(E, s, si)
  IN  [ i \in 1 .. Len(t.bbOrder) |-> t.branchTargets[t.bbOrder[i]] ]

\* lines 2144-2152
RECURSIVE switchTransfer(_, _, _, _)
switchTransfer(E, bbOrder, result, i) ==
  IF i > Len(bbOrder) THEN E
  ELSE switchTransfer(IF result[i] /= NULL
                      THEN transferToBasicBlock(E, result[i], bbOrder[i])
                      ELSE E, bbOrder, result, i + 1)

switchBranches(r, bbOrder) ==
  [ E |-> switchTransfer(r.E, bbOrder, r.result, 1), result |-> r.result ]

\* Instruction::Switch on the input x
Switch(E, s, si, nd) ==
  IF toUnique(E, s)
  THEN [ E |-> transferToBasicBlock(E, s,
                  findCaseValue(si, Min(Models(E.est[s].cons)))),
         result |-> << >> ]
  ELSE switchBranches(branch(E, s, switchConditions(E, s, si), nd),
                      switchTargets(E, s, si).bbOrder)

executeSwitch(E, s, si, nd) == Switch(E, s, si, nd).E

\* Switch when the solver fails on the mayBeTrue query of a case: the
\* assertions of lines 2096 and 2124 ("FIXME: Unhandled solver failure").
\* toUnique leaves the condition symbolic when its own queries fail.
switchUnsolved(E, s, si) == [ E EXCEPT !.aborted = TRUE ]

(* ---------------------------- IndirectBr ------------------------------ *)
\* an indirectbr instruction bi is the list of the addresses of its labels;
\* the address is the input x.  Lines 1987-2009: the feasible destinations
\* without duplicates, in the order of the list
RECURSIVE indirectDestinations(_, _, _, _, _)
indirectDestinations(E, s, bi, k, t) ==
  IF k > Len(bi) THEN t
  ELSE LET d == bi[k]
           e == SymCond({d} \cap Dom)
       IN  indirectDestinations(E, s, bi, k + 1,
             IF d \in t.destinations THEN t
             ELSE IF Models(E.est[s].cons) \cap e.sat = {}
             THEN [ t EXCEPT !.destinations = @ \cup {d} ]
             ELSE [ destinations |-> t.destinations \cup {d},
                    targets |-> Append(t.targets, d),
                    expressions |-> Append(t.expressions, e) ])

indirectTargets(E, s, bi) ==
  indirectDestinations(E, s, bi, 1,
    [ destinations |-> {}, targets |-> << >>, expressions |-> << >> ])

\* lines 1985, 1998: the address is none of the listed destinations
indirectErrorCase(bi) ==
  IF bi = << >> THEN ConstBool(TRUE) ELSE SymCond(Dom \ Range(bi))

\* lines 2011-2016
indirectErrorFeasible(E, s, bi) ==
  Models(E.est[s].cons) \cap indirectErrorCase(bi).sat /= {}

indirectExpressions(E, s, bi) ==
  indirectTargets(E, s, bi).expressions
    \o (IF indirectErrorFeasible(E, s, bi) THEN << indirectErrorCase(bi) >>
        ELSE << >>)

\* lines 2029-2034
RECURSIVE indirectTransfer(_, _, _, _)
indirectTransfer(E, targets, branches, k) ==
  IF k > Len(targets) THEN E
  ELSE indirectTransfer(IF branches[k] /= NULL
                        THEN transferToBasicBlock(E, branches[k], targets[k])
                        ELSE E, targets, branches, k + 1)

\* lines 2022-2026: the last branch is terminated through a reference made
\* from the pointer without a test.  When the pointer is null the behaviour
\* is undefined: the process crashes on the first field read through the
\* reference ("crash"), or the call has no effect ("none")
IndirectUb == { "crash", "none" }

indirectError(b, result, ub) ==
  IF ~result THEN [ E |-> b.E, branches |-> b.result, nullDeref |-> FALSE ]
  ELSE LET back == b.result[Len(b.result)]
           branches == SubSeq(b.result, 1, Len(b.result) - 1)
       IN  IF back = NULL
           THEN [ E |-> IF ub = "crash" THEN [ b.E EXCEPT !.aborted = TRUE ]
                        ELSE b.E,
                  branches |-> branches, nullDeref |-> TRUE ]
           ELSE [ E |-> terminateStateOnError(b.E, back,
                          "indirectbr: illegal label address", "Exec"),
                  branches |-> branches, nullDeref |-> FALSE ]

indirectFinish(r, b, targets) ==
  [ E |-> IF r.E.aborted THEN r.E
          ELSE indirectTransfer(r.E, targets, r.branches, 1),
    result |-> b.result, nullDeref |-> r.nullDeref ]

indirectBranches(b, targets, result, ub) ==
  indirectFinish(indirectError(b, result, ub), b, targets)

\* Instruction::IndirectBr
IndirectBr(E, s, bi, nd, ub) ==
  IF toUnique(E, s)
  THEN [ E |-> transferToBasicBlock(E, s, Min(Models(E.est[s].cons))),
         result |-> << >>, nullDeref |-> FALSE ]
  ELSE indirectBranches(branch(E, s, indirectExpressions(E, s, bi), nd),
                        indirectTargets(E, s, bi).targets,
                        indirectErrorFeasible(E, s, bi), ub)

(* ----------------------------- Call, Ret ------------------------------ *)
\* the functions of the program and the addresses they are known by
FunctionCalls == [ myprint |-> 100, printmyname |-> 200 ]

\* Executor::legalFunctions, filled by initializeGlobals
legalFunctions == { FunctionCalls[f] : f \in DOMAIN FunctionCalls }

\* f = (Function*) addr
functionAt(addr) == CHOOSE f \in DOMAIN FunctionCalls : FunctionCalls[f] = addr

\* a function pointer expression: its value for each value of the input
ConstFp(a) == [ const |-> TRUE, at |-> [ x \in Dom |-> a ] ]

SymFp(f) == [ const |-> FALSE, at |-> f ]

\* EqExpr::create(v, value)
EqFp(v, value) ==
  IF v.const THEN ConstBool(v.at[0] = value)
  ELSE SymCond({ x \in Dom : v.at[x] = value })

\* Executor::executeCall of a function with a body: the frame is pushed
\* and the state is at the function's first instruction
executeCall(E, s, f) ==
  IF /\ opt.RuntimeMaxStackFrames /= 0
     /\ Len(E.est[s].stack) > opt.RuntimeMaxStackFrames
  THEN terminateStateEarly(E, s, "Maximum stack size reached.")
  ELSE [ E EXCEPT !.est[s].stack =
                    Append(@, [ kf |-> f, caller |-> E.est[s].prevPC ]),
                  !.est[s].pc = FunctionCalls[f] ]

\* the value of an address expression for the value x of the input: the
\* non-constant address of the stores is the expression x + 1
addressAt(base, x) == IF base.const THEN base.a ELSE x + 1

\* EqExpr::create(temp, fp) for a recorded address temp and a constant fp
EqAddr(temp, fp) ==
  IF temp.const THEN ConstBool(temp.a = fp)
  ELSE SymCond({ x \in Dom : addressAt(temp, x) = fp })

\* lines 2363-2568: the loop over the WriteExploitCapability entries of
\* the issuing state: the equality of the recorded address and the address
\* fp taken from the binary is added for each, without a solver query
RECURSIVE callAawEntries(_, _, _, _)
callAawEntries(E, s, wec, fp) ==
  IF wec = {} \/ E.aborted THEN E
  ELSE LET e == CHOOSE e \in wec : TRUE
       IN  callAawEntries(addConstraint(E, s, EqAddr(e.base, fp)),
                          s, wec \ {e}, fp)

\* aaw is what the handler finds outside the engine: symbol tells whether
\* the operand names a global that is found in the binary ("found"), one
\* that is not ("missing": the state is ended at 2392 or 2511 and the
\* handler goes on), or a named operand no global matches ("noglobal");
\* fp is the address computed from the binary
callAaw(E, s, aaw) ==
  IF E.est[s].WriteExploitCapability = {} \/ aaw.symbol = "noglobal" THEN E
  ELSE callAawEntries(
         IF aaw.symbol = "missing"
         THEN terminateStateOnError(E, s,
                "Failed to find a name of global function pointer in binary (is this the name issue?)!",
                "Exec")
         ELSE E,
         s, E.est[s].WriteExploitCapability, aaw.fp)

\* lines 2576-2631, with res.first set: a symbolic pointer ends the
\* state and the loop; a constant one is called if it is a legal function
RECURSIVE callLoop(_, _, _, _, _, _)
callCalled(E, res, s, v, value, hasInvalid, nd) ==
  IF E.aborted THEN E
  ELSE IF ~v.const
  THEN terminateStateOnError(E, s, "AEG: Find a possible exploit", "Exec")
  ELSE IF value \in legalFunctions
  THEN IF res.second = NULL
       THEN executeCall(E, res.first, functionAt(value))
       ELSE callLoop(executeCall(E, res.first, functionAt(value)),
                     s, res.second, v, hasInvalid, nd)
  ELSE IF res.second = NULL
  THEN IF hasInvalid THEN E
       ELSE terminateStateOnError(E, s, "invalid function pointer", "Exec")
  ELSE callLoop(IF hasInvalid THEN E
                ELSE terminateStateOnError(E, s,
                       "invalid function pointer", "Exec"),
                s, res.second, v, TRUE, nd)

callResolved(res, s, v, value, hasInvalid, nd) ==
  IF res.first = NULL
  THEN IF res.second = NULL THEN res.E
       ELSE callLoop(res.E, s, res.second, v, hasInvalid, nd)
  ELSE callCalled(callAaw(res.E, s, nd.aaw), res, s, v, value, hasInvalid, nd)

\* one round of the do loop of lines 2321-2631: getValue, then the
\* internal fork
callFork(E, free, v, value, nd) ==
  fork(E, free, EqFp(v, value), TRUE,
       [ solverOk |-> TRUE, rng |-> nd.rng, staticLimit |-> FALSE, val |-> 0 ])

callLoop(E, s, free, v, hasInvalid, nd) ==
  callResolved(
    callFork(E, free, v, v.at[SolverModel(E.est[free].cons, nd.val)], nd),
    s, v, v.at[SolverModel(E.est[free].cons, nd.val)], hasInvalid, nd)

\* Instruction::Call through the function pointer expression v; the
\* assertion of line 2333 when getValue fails
executeCallIndirect(E, s, v, nd) ==
  IF ~nd.solverOk THEN [ E EXCEPT !.aborted = TRUE ]
  ELSE callLoop(E, s, s, v, FALSE, nd)

\* ZExtExpr::create and SExtExpr::create on a constant of Len(value)
\* bytes, the low byte first: to bytes of it
ZExt(value, to) ==
  [ i \in 1 .. to |-> IF i <= Len(value) THEN value[i] ELSE ConstByte(0) ]

SExt(value, to) ==
  [ i \in 1 .. to |->
      IF i <= Len(value) THEN value[i]
      ELSE ConstByte(IF value[Len(value)].v >= 128 THEN 255 ELSE 0) ]

\* Ret with more than one frame being the SExt attribute's opposite
retCoerce_swapped(result, cs) ==
  IF Len(result) = cs.to THEN result
  ELSE IF cs.isSExt THEN ZExt(result, cs.to) ELSE SExt(result, cs.to)

\* lines 1907-1923: the coercion to the width of the call
retCoerce(result, cs) ==
  IF Len(result) = cs.to THEN result
  ELSE IF cs.isSExt THEN SExt(result, cs.to) ELSE ZExt(result, cs.to)

\* lines 1901-1933: the value reaches the caller
retBind(E, s, isVoidReturn, result, cs) ==
  IF ~isVoidReturn
  THEN IF cs.to /= 0 THEN bindLocal(E, s, retCoerce(result, cs)) ELSE E
  ELSE IF cs.used
  THEN terminateStateOnError(E, s,
         "return void when caller expected a result", "Exec")
  ELSE E

\* Instruction::Ret; cs is the call instruction of the frame: an invoke
\* or a call, the width of its type in bytes (0: void), its SExt return
\* attribute, whether its value is used
executeRet(E, s, isVoidReturn, result, cs) ==
  LET stack == E.est[s].stack
      kcaller == stack[Len(stack)].caller
  IN  IF Len(stack) <= 1
      THEN IF kcaller /= NULL THEN [ E EXCEPT !.aborted = TRUE ]
           ELSE terminateStateOnExit(E, s)
      ELSE retBind(
             IF cs.invoke
             THEN transferToBasicBlock(
                    [ E EXCEPT !.est[s].stack = SubSeq(@, 1, Len(@) - 1) ],
                    s, cs.normalDest)
             ELSE [ E EXCEPT !.est[s].stack = SubSeq(@, 1, Len(@) - 1),
                             !.est[s].pc = kcaller + 1 ],
             s, isVoidReturn, result, cs)

(* ----------------------------- executeFree ---------------------------- *)
\* Expr::createIsZero(address)
IsZeroFp(address) == EqFp(address, 0)

\* the object may contain a value of the pointer under the constraints
mayPointInto(E, s, p, mo) ==
  \E x \in Models(E.est[s].cons) :
     mo.address <= p.at[x] /\ p.at[x] < mo.address + mo.size

\* AddressSpace::resolve: the bound objects the pointer may point into, in
\* the order of their addresses
RECURSIVE resolve(_, _, _, _)
resolve(E, s, p, i) ==
  IF i > Len(memObjects) THEN << >>
  ELSE IF /\ memObjects[i].name \in DOMAIN E.est[s].mem
          /\ mayPointInto(E, s, p, memObjects[i])
  THEN << i >> \o resolve(E, s, p, i + 1)
  ELSE resolve(E, s, p, i + 1)

\* what the internal forks of resolveExact draw from outside
ExactNd(nd) ==
  [ solverOk |-> nd.exactOk, rng |-> nd.rng, staticLimit |-> FALSE, val |-> 0 ]

\* Executor::resolveExact, lines 4723-4736: the pointer is compared with
\* the base of each object; the loop ends when no unbound state is left
RECURSIVE resolveExactLoop(_, _, _, _, _, _)
resolveExactNext(branches, rl, p, results, nd) ==
  IF branches.second = NULL
  THEN [ E |-> branches.E, unbound |-> NULL,
         results |-> IF branches.first /= NULL
                     THEN Append(results, << Head(rl), branches.first >>)
                     ELSE results ]
  ELSE resolveExactLoop(branches.E, branches.second, Tail(rl), p,
                        IF branches.first /= NULL
                        THEN Append(results, << Head(rl), branches.first >>)
                        ELSE results,
                        nd)

resolveExactLoop(E, unbound, rl, p, results, nd) ==
  IF rl = << >> THEN [ E |-> E, unbound |-> unbound, results |-> results ]
  ELSE resolveExactNext(
         fork(E, unbound, EqFp(p, memObjects[Head(rl)].address), TRUE,
              ExactNd(nd)),
         rl, p, results, nd)

\* lines 4738-4741: the state left unbound is ended
resolveExactEnd(r) ==
  IF r.unbound /= NULL
  THEN [ r EXCEPT !.E = terminateStateOnError(
                          @, r.unbound, "memory error: invalid pointer: free",
                          "Ptr") ]
  ELSE r

\* Executor::resolveExact
resolveExact(E, s, p, nd) ==
  resolveExactEnd(resolveExactLoop(E, s, resolve(E, s, p, 1), p, << >>, nd))

\* nme_req(&state, 1), lines 476-620: the request is taken from the end
\* of the heap_allocs of the state it is given, and the address the native
\* side answers is written there; back() of an empty vector is undefined
nme_req(E, state) ==
  IF E.est[state].heap_allocs = << >> THEN [ E EXCEPT !.aborted = TRUE ]
  ELSE [ E EXCEPT !.est[state].heap_allocs =
                    [ @ EXCEPT ![Len(E.est[state].heap_allocs)].answered = TRUE ] ]

\* executeFree unbinding the object in the state that called free
freeHeap_inCaller(E, state, st, mo) ==
  bindLocal(
    [ E EXCEPT !.est[state].mem = Restrict(@, DOMAIN @ \ { mo.name }) ],
    st, << ConstByte(0) >>)

\* lines 4692-4708: the object is unbound in the state that resolved to it
freeHeap(E, state, st, mo) ==
  bindLocal(
    [ (IF mo.isHeap
       THEN nme_req([ E EXCEPT !.est[st].heap_allocs =
                        Append(@, [ mo |-> mo.name, req |-> 2,
                                    answered |-> FALSE ]) ],
                    state)
       ELSE E)
      EXCEPT !.est[st].mem = Restrict(@, DOMAIN @ \ { mo.name }) ],
    st, << ConstByte(0) >>)

\* lines 4684-4710: one entry of the resolution list after the other
RECURSIVE freeResults(_, _, _, _)
freeResults(E, state, results, i) ==
  IF i > Len(results) THEN E
  ELSE LET mo == memObjects[results[i][1]]
           st == results[i][2]
       IN  freeResults(
             IF mo.isLocal
             THEN terminateStateOnError(E, st, "free of alloca", "Free")
             ELSE IF mo.isGlobal
             THEN terminateStateOnError(E, st, "free of global", "Free")
             ELSE freeHeap(E, state, st, mo),
             state, results, i + 1)

\* lines 4679-4711: address != 0
freeResolved(r, state) == freeResults(r.E, state, r.results, 1)

\* lines 4675-4711
freeBranches(zeroPointer, state, address, nd) ==
  IF zeroPointer.second = NULL
  THEN IF zeroPointer.first = NULL THEN zeroPointer.E
       ELSE bindLocal(zeroPointer.E, zeroPointer.first, << ConstByte(0) >>)
  ELSE freeResolved(
         resolveExact(
           IF zeroPointer.first = NULL THEN zeroPointer.E
           ELSE bindLocal(zeroPointer.E, zeroPointer.first,
                          << ConstByte(0) >>),
           zeroPointer.second, address, nd),
         state)

\* Executor::executeFree with a target
executeFree(E, state, address, nd) ==
  freeBranches(
    fork(E, state, IsZeroFp(address), TRUE,
         [ solverOk |-> nd.solverOk, rng |-> nd.rng, staticLimit |-> FALSE,
           val |-> 0 ]),
    state, address, nd)

(* ----------------------------- toConstant ----------------------------- *)
\* ConstraintManager::simplifyExpr gives a constant: the expression is
\* one, or the simplifier finds the one value the constraints leave it
simplifiesToConstant(E, s, e, nd) ==
  \/ e.const
  \/ /\ nd.simplifies
     /\ \A x, y \in Models(E.est[s].cons) : e.at[x] = e.at[y]

\* toConstant returning the value without recording it
toConstant_noConstraint(E, s, e, nd) ==
  IF simplifiesToConstant(E, s, e, nd)
  THEN [ E |-> E, value |-> e.at[SolverModel(E.est[s].cons, 0)] ]
  ELSE IF ~nd.solverOk
  THEN [ E |-> [ E EXCEPT !.aborted = TRUE ], value |-> 0 ]
  ELSE [ E |-> E, value |-> e.at[SolverModel(E.est[s].cons, nd.val)] ]

\* Executor::toConstant, lines 1425-1452
toConstant(E, s, e, nd) ==
  IF simplifiesToConstant(E, s, e, nd)
  THEN [ E |-> E, value |-> e.at[SolverModel(E.est[s].cons, 0)] ]
  ELSE IF ~nd.solverOk
  THEN [ E |-> [ E EXCEPT !.aborted = TRUE ], value |-> 0 ]
  ELSE [ E |-> addConstraint(
                 E, s, EqFp(e, e.at[SolverModel(E.est[s].cons, nd.val)])),
         value |-> e.at[SolverModel(E.est[s].cons, nd.val)] ]

(* ------------------------ callExternalFunction ------------------------ *)
\* okExternals, line 4252
okExternals == { "printf", "fprintf", "puts", "getpid" }

\* every external call passing the test of the policy none
externalDisallowed_never(f) == FALSE

\* lines 4268-4269
externalDisallowed(f) == opt.ExternalCalls = "none" /\ f \notin okExternals

\* Executor::toUnique on an argument: its value if the solver answers and
\* proves that the constraints leave it one value
toUniqueArg(E, s, a, nd) ==
  IF a.const THEN << a.at[0] >>
  ELSE IF /\ nd.uniqueOk
          /\ \A x \in Models(E.est[s].cons) :
                a.at[x] = a.at[SolverModel(E.est[s].cons, nd.val)]
  THEN << a.at[SolverModel(E.est[s].cons, nd.val)] >>
  ELSE << >>

\* lines 4295-4311 and 4326-4362: a value inside the native heap range is
\* replaced by the kleeAddress of the object it lies in; if it lies in
\* none the call fails
extWord(E, s, f, value) ==
  IF value >= n_heap_l /\ value <= n_heap_h
  THEN IF resolveOne(E, s, value) = {}
       THEN [ E |-> terminateStateOnError(E, s, "failed external call", "External"),
              word |-> << >> ]
       ELSE [ E |-> E, word |-> << [ v |-> value, kleeAddress |-> TRUE ] >> ]
  ELSE [ E |-> E, word |-> << [ v |-> value, kleeAddress |-> FALSE ] >> ]

\* lines 4286-4369: one argument
extArg(E, s, f, a, nd) ==
  IF opt.ExternalCalls = "all"
  THEN IF ~nd.solverOk THEN [ E |-> [ E EXCEPT !.aborted = TRUE ], word |-> << >> ]
       ELSE extWord(E, s, f, a.at[SolverModel(E.est[s].cons, nd.val)])
  ELSE IF toUniqueArg(E, s, a, nd) /= << >>
  THEN extWord(E, s, f, toUniqueArg(E, s, a, nd)[1])
  ELSE [ E |-> terminateStateOnError(
                 E, s, "external call with symbolic argument", "Exec"),
         word |-> << >> ]

\* the loop over the arguments; it returns at the first that fails
RECURSIVE extArgs(_, _, _, _, _, _, _)
extArgsNext(r, s, f, arguments, i, args, nd) ==
  IF r.word = << >> THEN [ E |-> r.E, ok |-> FALSE, args |-> args ]
  ELSE extArgs(r.E, s, f, arguments, i + 1, args \o r.word, nd)

extArgs(E, s, f, arguments, i, args, nd) ==
  IF i > Len(arguments) THEN [ E |-> E, ok |-> TRUE, args |-> args ]
  ELSE extArgsNext(extArg(E, s, f, arguments[i], nd), s, f, arguments, i,
                   args, nd)

\* lines 4380-4438: errno is read, the dispatcher is called, the
\* concretes are copied in and the result is bound
extDispatch(r, s, f, nd) ==
  IF ~r.ok THEN [ E |-> r.E, call |-> << >> ]
  ELSE IF ~nd.errnoConst
  THEN [ E |-> terminateStateOnError(
                 r.E, s, "external call with errno value symbolic", "Exec"),
         call |-> << >> ]
  ELSE IF ~nd.execOk
  THEN [ E |-> terminateStateOnError(r.E, s, "failed external call",
                                     "External"),
         call |-> << [ f |-> f, args |-> r.args ] >> ]
  ELSE IF ~nd.copyInOk
  THEN [ E |-> terminateStateOnError(
                 r.E, s, "external modified read-only object", "External"),
         call |-> << [ f |-> f, args |-> r.args ] >> ]
  ELSE [ E |-> bindLocal(r.E, s, << ConstByte(0) >>),
         call |-> << [ f |-> f, args |-> r.args ] >> ]

\* Executor::callExternalFunction; call is what the external dispatcher
\* was asked to execute, if it was
callExternalFunction(E, s, f, arguments, nd) ==
  IF nd.handled THEN [ E |-> E, call |-> << >> ]
  ELSE IF externalDisallowed(f)
  THEN [ E |-> terminateStateOnError(E, s, "external calls disallowed",
                                     "User"),
         call |-> << >> ]
  ELSE extDispatch(extArgs(E, s, f, arguments, 1, << >>, nd), s, f, nd)

(* -------------------------- checkMemoryUsage -------------------------- *)
RECURSIVE killStates(_, _)
killStates(E, arr) ==
  IF arr = << >> THEN E
  ELSE killStates(terminateStateEarly(E, Head(arr), "Memory limit exceeded."),
                  Tail(arr))

\* Executor::checkMemoryUsage: mbs is the memory in use, arr the states
\* the random pulls pick
checkMemoryUsage(E, mbs, arr) ==
  IF opt.MaxMemory = 0 THEN E
  ELSE IF E.instructions % SamplePeriod /= 0 THEN E
  ELSE IF mbs > opt.MaxMemory
  THEN [ (IF mbs > opt.MaxMemory + 100 THEN killStates(E, arr) ELSE E)
           EXCEPT !.atMemoryLimit = TRUE ]
  ELSE [ E EXCEPT !.atMemoryLimit = FALSE ]

\* every state is killed
toKill_everyState(E, mbs) == Cardinality(E.states)

\* the number of states checkMemoryUsage kills
toKill(E, mbs) ==
  LET numStates == Cardinality(E.states)
      guess == numStates - ((numStates * opt.MaxMemory) \div mbs)
  IN  IF guess > 1 THEN guess ELSE 1

\* Executor::doDumpStates
RECURSIVE dumpStates(_, _)
dumpStates(E, todo) ==
  IF todo = {} THEN E
  ELSE dumpStates(terminateStateEarly(E, Min(todo), "Execution halting."),
                  todo \ { Min(todo) })

doDumpStates(E) ==
  IF ~opt.DumpStatesOnHalt \/ E.states = {} THEN E
  ELSE updateStates(dumpStates(E, E.states))

(* ------------------------- initial conditions ------------------------- *)
\* the options at their defaults
OptDefault ==
  [ MaxForks |-> NoMaxForks, OnlyReplaySeeds |-> FALSE,
    MaxMemoryInhibit |-> TRUE, MaxDepth |-> 0, MaxStaticPct |-> FALSE,
    hasReplayPath |-> FALSE, replayPath |-> << >>,
    OnlyOutputStatesCoveringNew |-> FALSE, AlwaysOutputSeeds |-> TRUE,
    EmitAllErrors |-> FALSE, ExitOnErrorType |-> {}, MaxMemory |-> 2000,
    MaxInstructions |-> 0, DumpStatesOnHalt |-> TRUE, usingSeeds |-> FALSE,
    ExternalCalls |-> "concrete", RuntimeMaxStackFrames |-> 8192 ]

\* the initial ExecutionState
InitState(fd, cons) ==
  [ cons |-> cons, pc |-> 0, prevPC |-> 0, depth |-> 0, forkDisabled |-> fd,
    coveredNew |-> TRUE, steppedInstructions |-> 0, mem |-> << >>,
    local |-> << >>, WriteExploitCapability |-> {}, arrayNames |-> {},
    stack |-> << [ kf |-> "main", caller |-> NULL ] >>,
    heap_allocs |-> << >> ]

\* the seed vectors given with usingSeeds
SeedSets ==
  { { [ id |-> i, val |-> f[i] ] : i \in 1 .. n } :
      f \in { g \in [ 1 .. MaxSeeds -> Dom ] :
                \A i \in 1 .. (MaxSeeds - 1) : g[i] < g[i + 1] },
      n \in 1 .. MaxSeeds }

NoRet == [ op |-> "none" ]

\* no request was made yet: last_state is NULL, the indicator is clear
NmeIdle ==
  /\ last_state = NULL
  /\ nme_buf = << >>
  /\ kn_indicator = [ num |-> 0, flag |-> 0 ]
  /\ nativeHeap = [ live |-> {}, serving |-> FALSE ]
  /\ nmeCall = [ pc |-> "idle" ]

\* what a call found on entry
Pre(s) ==
  [ cons |-> est[s].cons, forks |-> forks, added |-> addedStates,
    seeded |-> s \in DOMAIN seedMap, nextId |-> nextId,
    replayPosition |-> replayPosition,
    seeds |-> IF s \in DOMAIN seedMap THEN seedMap[s] ELSE {},
    ptree |-> ptree ]

\* the engine inside executeInstruction of the first instruction:
\* stepInstruction has moved pc past prevPC
InitEngineAt(o, sm, fd, cons, rp) ==
  /\ states = {1}
  /\ addedStates = << >>
  /\ removedStates = << >>
  /\ seedMap = sm
  /\ est = (1 :> [ InitState(fd, cons) EXCEPT !.pc = 1 ])
  /\ ptree = (1 :> << >>)
  /\ forks = 0
  /\ replayPosition = rp
  /\ haltExecution = FALSE
  /\ nextId = 2
  /\ testCases = {}
  /\ emittedErrors = {}
  /\ aborted = FALSE
  /\ opt = o
  /\ searcherOn = FALSE
  /\ searcherStates = {}
  /\ instructions = 0
  /\ OnlySeed = FALSE
  /\ symFpName = << >>
  /\ fpAddress = << >>
  /\ isSymFpValue = FALSE
  /\ memObjects = << >>
  /\ n_heap_l = 0
  /\ n_heap_h = 0
  /\ phase = "call"
  /\ cur = NULL
  /\ lastState = NULL
  /\ ret = NoRet
  /\ NmeIdle

InitEngine(o, sm, fd, cons) == InitEngineAt(o, sm, fd, cons, 0)

(* ---------------------- SpecFork: calls of fork ---------------------- *)
\* one option away from the defaults at a time
ForkOpts ==
  { OptDefault,
    [ OptDefault EXCEPT !.MaxForks = 0 ],
    [ OptDefault EXCEPT !.OnlyReplaySeeds = TRUE ],
    [ OptDefault EXCEPT !.MaxDepth = 1 ],
    [ OptDefault EXCEPT !.MaxStaticPct = TRUE ] }
  \cup { [ OptDefault EXCEPT !.hasReplayPath = TRUE, !.replayPath = rp ] :
           rp \in { << >>, << TRUE >>, << FALSE >>, << FALSE, TRUE >> } }

\* the replay has consumed any number of the recorded branches.
\* forkDisabled, atMemoryLimit, inhibitForking: at most one of them set
ForkFlags == { << FALSE, FALSE, FALSE >>, << TRUE, FALSE, FALSE >>,
               << FALSE, TRUE, FALSE >>, << FALSE, FALSE, TRUE >> }

\* the path constraints the state has collected before the call
InitStores == { {} } \cup { { [ const |-> FALSE, sat |-> Dom \ {v} ] } : v \in Dom }

InitFork ==
  \E o \in ForkOpts, fl \in ForkFlags, cons \in InitStores,
     sm \in { << >> } \cup { (1 :> sd) : sd \in SeedSets } :
    /\ atMemoryLimit = fl[2]
    /\ inhibitForking = fl[3]
    /\ \E rp \in 0 .. Len(o.replayPath) :
         InitEngineAt(o, sm, fl[1], cons, rp)

\* the boolean expressions a state can branch on
Conds == { SymCond(S) : S \in SUBSET Dom } \cup { ConstBool(TRUE), ConstBool(FALSE) }

\* what fork draws from outside: the solver answering in time, theRNG,
\* the statistics being past the static limits, the model of getValue
ForkNd(E, s, cond) ==
  { nd \in [ solverOk : BOOLEAN, rng : BOOLEAN, staticLimit : BOOLEAN,
             val : Dom ] :
      /\ ~nd.solverOk => (~cond.const /\ ~nd.staticLimit)
      /\ nd.staticLimit =>
            (opt.MaxStaticPct /\ ~cond.const /\ s \notin DOMAIN E.seedMap)
      /\ nd.val /= 0 => (nd.staticLimit /\ nd.val \in Models(E.est[s].cons))
      /\ nd.rng =>
            (nd.solverOk /\ forkInhibited(E, s) /\ s \notin DOMAIN E.seedMap) }

CallFork ==
  \E s \in states, cond \in Conds :
   \E nd \in ForkNd(Eng, s, cond),
      isInternal \in IF opt.hasReplayPath THEN BOOLEAN ELSE { FALSE } :
   \E r \in { fork(Eng, s, cond, isInternal, nd) } :
        /\ ret.op = "none"
        /\ SetEng(r.E)
        /\ ret' = [ op |-> "fork", s |-> s, cond |-> cond,
                    isInternal |-> isInternal, first |-> r.first,
                    second |-> r.second, res0 |-> r.res0,
                    solverOk |-> nd.solverOk, pre |-> Pre(s) ]
        /\ UNCHANGED << nmeVars, envVars, loopVars >>

NextFork == CallFork

SpecFork == InitFork /\ [][NextFork]_vars

(* -------------------- SpecBranch: calls of branch --------------------- *)
BranchOpts ==
  { [ OptDefault EXCEPT !.MaxForks = mf, !.OnlyReplaySeeds = ors ] :
      mf \in { NoMaxForks, 0 }, ors \in BOOLEAN }

InitBranch ==
  \E o \in BranchOpts, sm \in { << >> } \cup { (1 :> sd) : sd \in SeedSets } :
    /\ atMemoryLimit = FALSE
    /\ inhibitForking = FALSE
    /\ InitEngine(o, sm, FALSE, {})

\* the condition vectors of a Switch, an IndirectBr or executeGetValue:
\* satisfiable, not constant and mutually exclusive
CondVectors ==
  UNION { { q \in [ 1 .. n -> { SymCond(S) : S \in SUBSET Dom \ { {} } } ] :
              \A i, j \in 1 .. n : i /= j => q[i].sat \cap q[j].sat = {} } :
          n \in 1 .. MaxConds }

\* the values branch draws from theRNG
BranchNd(E, s, conds) ==
  LET N == Len(conds)
      full == opt.MaxForks /= NoMaxForks /\ E.forks >= opt.MaxForks
  IN  { nd \in [ next : 0 .. (N - 1), par : 0 .. 1, seedPick : 0 .. (N - 1) ] :
          /\ nd.next /= 0 => full
          /\ nd.par /= 0 => (~full /\ N > 2)
          /\ nd.seedPick /= 0 =>
                /\ s \in DOMAIN E.seedMap
                /\ \E sd \in E.seedMap[s] :
                     \A i \in 1 .. N : ~seedEvaluate(sd, conds[i]) }

CallBranch ==
  \E s \in states, conds \in CondVectors :
   \E nd \in BranchNd(Eng, s, conds) :
   \E r \in { branch(Eng, s, conds, nd) } :
        /\ ret.op = "none"
        /\ SetEng(r.E)
        /\ ret' = [ op |-> "branch", s |-> s, conds |-> conds,
                    result |-> r.result, pre |-> Pre(s) ]
        /\ UNCHANGED << nmeVars, envVars, loopVars >>

NextBranch == CallBranch

SpecBranch == InitBranch /\ [][NextBranch]_vars

(* ----------------------- calls of toConstant -------------------------- *)
\* the expressions made constant: a constant, the input, functions of it
ConstExprs ==
  { ConstFp(5), SymFp([ x \in Dom |-> x ]),
    SymFp([ x \in Dom |-> IF x = 0 THEN 4 ELSE 7 ]),
    SymFp([ x \in Dom |-> 3 ]) }

\* what toConstant draws from outside: the simplifier finding the value,
\* the solver answering getValue, its model
ConstNd(E, s, e) ==
  { nd \in [ simplifies : BOOLEAN, solverOk : BOOLEAN, val : Dom ] :
      /\ nd.simplifies =>
            (~e.const /\ nd.solverOk /\ nd.val = 0
               /\ \A x, y \in Models(E.est[s].cons) : e.at[x] = e.at[y])
      /\ ~nd.solverOk => (~e.const /\ nd.val = 0)
      /\ nd.val /= 0 => (~e.const /\ nd.val \in Models(E.est[s].cons)) }

CallToConstant ==
  \E s \in states, e \in ConstExprs :
   \E nd \in ConstNd(Eng, s, e) :
   \E r \in { toConstant(Eng, s, e, nd) } :
        /\ ret.op = "none"
        /\ SetEng(r.E)
        /\ ret' = [ op |-> "toConstant", s |-> s, e |-> e, nd |-> nd,
                    value |-> r.value,
                    simplified |-> simplifiesToConstant(Eng, s, e, nd),
                    pre |-> Pre(s) ]
        /\ UNCHANGED << nmeVars, envVars, loopVars >>

\* the state is any a run can hold: seeded or not, with the store still
\* empty or holding a constraint its seeds satisfy
InitConst ==
  \E cons \in InitStores :
   \E sm \in { << >> } \cup
              { (1 :> sd) : sd \in { q \in SeedSets :
                                       \A d \in q : d.val \in Models(cons) } } :
    /\ atMemoryLimit = FALSE
    /\ inhibitForking = FALSE
    /\ InitEngine(OptDefault, sm, FALSE, cons)

NextConst == CallToConstant

SpecConst == InitConst /\ [][NextConst]_vars

(* ------------------- fork and branch while seeding -------------------- *)
\* lines 3965-3969: run binds every usable seed to the initial state, whose
\* constraint store is still empty
InitSeed ==
  \E o \in BranchOpts, sd \in SeedSets :
    /\ atMemoryLimit = FALSE
    /\ inhibitForking = FALSE
    /\ InitEngine(o, (1 :> sd), FALSE, {})

NextSeed == CallFork \/ CallBranch

SpecSeed == InitSeed /\ [][NextSeed]_vars

(* --------------------------- Executor::run ---------------------------- *)
\* the state the loop steps next: seedMap.upper_bound(lastState) while
\* seeding, searcher->selectState() afterwards
Selectable ==
  IF searcherOn THEN searcherStates
  ELSE IF DOMAIN seedMap = {} THEN {}
  ELSE LET later == { k \in DOMAIN seedMap : k > lastState }
       IN  { IF later /= {} THEN Min(later) ELSE Min(DOMAIN seedMap) }

\* the instructions stepped since the run began
Stepped ==
  IF instructions >= 2 * SamplePeriod - 2
  THEN instructions - (2 * SamplePeriod - 2)
  ELSE IF instructions >= SamplePeriod - 1
  THEN instructions - (SamplePeriod - 1)
  ELSE instructions

\* the loops going on whether or not haltExecution is set
CanStep_ignoreHalt ==
  /\ phase = "select" /\ ~aborted
  /\ searcherOn => states /= {}
  /\ Stepped < MaxInstr

\* the loops go on: lines 3974-3978 and 4032
CanStep ==
  /\ phase = "select" /\ ~aborted /\ ~haltExecution
  /\ searcherOn => states /= {}
  /\ Stepped < MaxInstr

\* the rest of the iteration after executeInstruction: the seeding loop
\* does not check the memory usage
Iteration(s, E, r) ==
  /\ SetEng(E)
  /\ cur' = s
  /\ lastState' = IF searcherOn THEN lastState ELSE s
  /\ phase' = IF searcherOn THEN "checkmem" ELSE "update"
  /\ ret' = r
  /\ UNCHANGED envVars

\* an iteration whose instruction makes no request to the native helper
AfterStep(s, E, r) == Iteration(s, E, r) /\ UNCHANGED nmeVars

\* the conditions of the conditional branches of the program
BrConds == { SymCond({0}), SymCond({1}), ConstBool(TRUE) }

\* one iteration on a Br instruction
StepBr ==
  \E s \in Selectable, cond \in BrConds :
   \E nd \in ForkNd(Eng, s, cond) :
   \E E \in { executeBr(stepInstruction(Eng, s), s, cond, nd) } :
     /\ CanStep
     /\ nextId <= MaxStates
     /\ AfterStep(s, E, [ op |-> "Br", s |-> s, cond |-> cond,
                           solverOk |-> nd.solverOk ])

\* the case values of the switches of the program
SwitchCases ==
  { [ succ |-> (0 :> 10), dflt |-> 20 ],
    [ succ |-> (0 :> 10) @@ (1 :> 20), dflt |-> 30 ] }

\* one iteration on a Switch instruction
StepSwitch ==
  \E s \in Selectable, cases \in SwitchCases :
   \E nd \in BranchNd(Eng, s, switchConditions(Eng, s, cases)) :
   \E E \in { executeSwitch(stepInstruction(Eng, s), s, cases, nd) } :
     /\ CanStep
     /\ nextId - 1 + Cardinality(DOMAIN cases.succ) <= MaxStates
     /\ AfterStep(s, E, [ op |-> "Switch", s |-> s ])

\* one iteration on the instruction that ends the program
StepExit ==
  \E s \in Selectable :
     /\ CanStep
     /\ AfterStep(s, terminateStateOnExit(stepInstruction(Eng, s), s),
                  [ op |-> "Exit", s |-> s ])

\* one iteration on a Switch instruction whose solver queries fail
StepSwitchUnsolved ==
  \E s \in Selectable, cases \in SwitchCases :
     /\ CanStep
     /\ AfterStep(s, switchUnsolved(stepInstruction(Eng, s), s, cases),
                  [ op |-> "SwitchUnsolved", s |-> s ])

\* one iteration on an Unreachable instruction
StepUnreachable ==
  \E s \in Selectable :
     /\ CanStep
     /\ AfterStep(s, terminateStateOnError(stepInstruction(Eng, s), s,
                       "reached \"unreachable\" instruction", "Exec"),
                  [ op |-> "Unreachable", s |-> s ])

\* timers.invoke() after executeInstruction: the halt timer has expired
HaltTimer ==
  /\ phase = (IF searcherOn THEN "checkmem" ELSE "update")
  /\ ~haltExecution
  /\ SetEng([ Eng EXCEPT !.halt = TRUE ])
  /\ UNCHANGED << nmeVars, envVars, loopVars, ret >>

\* the memory checkMemoryUsage can find in use, in megabytes
MemSamples == { 1000, 2050, 2101, 7000 }

\* the sequences of k distinct states out of S
Pulls(S, k) ==
  { q \in [ 1 .. k -> S ] : \A i, j \in 1 .. k : i /= j => q[i] /= q[j] }

CheckMemoryUsage ==
  /\ phase = "checkmem"
  /\ \E mbs \in MemSamples :
      \E arr \in IF /\ opt.MaxMemory /= 0
                    /\ instructions % SamplePeriod = 0
                    /\ mbs > opt.MaxMemory + 100
                 THEN LET k == toKill(Eng, mbs)
                          n == Cardinality(states)
                      IN  Pulls(states, IF k < n THEN k ELSE n)
                 ELSE { << >> } :
        /\ (mbs /= 1000 =>
              opt.MaxMemory /= 0 /\ instructions % SamplePeriod = 0)
        /\ SetEng(checkMemoryUsage(Eng, mbs, arr))
  /\ phase' = "update"
  /\ UNCHANGED << nmeVars, envVars, cur, lastState, ret >>

UpdateStates ==
  /\ phase = "update"
  /\ SetEng(updateStates(Eng))
  /\ phase' = "select"
  /\ UNCHANGED << nmeVars, envVars, cur, lastState, ret >>

\* lines 4027-4030: seeding is over, the searcher is made and given the states
StartSearch ==
  /\ phase = "select" /\ ~aborted /\ ~searcherOn
  /\ opt.usingSeeds => (DOMAIN seedMap = {} /\ ~OnlySeed)
  /\ SetEng([ Eng EXCEPT !.searcherOn = TRUE, !.searcherStates = states ])
  /\ UNCHANGED << nmeVars, envVars, loopVars, ret >>

\* run returns: on a halt while seeding (3975-3978), after seeding with
\* OnlySeed (4021-4024), or when the main loop ends (4047-4050)
RunReturn ==
  /\ phase = "select" /\ ~aborted
  /\ IF searcherOn THEN states = {} \/ haltExecution
     ELSE /\ opt.usingSeeds
          /\ IF DOMAIN seedMap = {} THEN OnlySeed ELSE haltExecution
  /\ SetEng(doDumpStates([ Eng EXCEPT !.searcherOn = FALSE,
                                     !.searcherStates = {} ]))
  /\ phase' = "done"
  /\ UNCHANGED << nmeVars, envVars, cur, lastState, ret >>

(* ------------------ SpecRun: the loops of Executor::run --------------- *)
RunOpts ==
  { OptDefault,
    [ OptDefault EXCEPT !.MaxForks = 1 ],
    [ OptDefault EXCEPT !.MaxDepth = 1 ],
    [ OptDefault EXCEPT !.MaxInstructions = 2 ],
    [ OptDefault EXCEPT !.MaxMemory = 0 ],
    [ OptDefault EXCEPT !.OnlyReplaySeeds = TRUE ] }

\* the run starts with the initial state in states (line 3962), the seeds
\* in seedMap and no searcher
RunStart(o, sm, i0) ==
    /\ states = {1}
    /\ addedStates = << >>
    /\ removedStates = << >>
    /\ seedMap = IF sm = {} THEN << >> ELSE (1 :> sm)
    /\ est = (1 :> InitState(FALSE, {}))
    /\ ptree = (1 :> << >>)
    /\ forks = 0
    /\ replayPosition = 0
    /\ atMemoryLimit = FALSE
    /\ inhibitForking = FALSE
    /\ haltExecution = FALSE
    /\ nextId = 2
    /\ testCases = {}
    /\ emittedErrors = {}
    /\ aborted = FALSE
    /\ opt = [ o EXCEPT !.usingSeeds = sm /= {} ]
    /\ searcherOn = FALSE
    /\ searcherStates = {}
    /\ instructions = i0
    /\ OnlySeed = FALSE
    /\ symFpName = << >>
    /\ fpAddress = << >>
    /\ isSymFpValue = FALSE
    /\ memObjects = << >>
    /\ n_heap_l = 0
    /\ n_heap_h = 0
    /\ phase = "select"
    /\ cur = NULL
    /\ lastState = NULL
    /\ ret = NoRet
    /\ NmeIdle

\* the seeds given to the run
RunSeeds == { {}, { [ id |-> 1, val |-> 0 ] },
              { [ id |-> 1, val |-> 0 ], [ id |-> 2, val |-> 1 ] } }

InitRun ==
  \E o \in RunOpts, sm \in RunSeeds, i0 \in { 0, SamplePeriod - 1 } :
    RunStart(o, sm, i0)

NextRun ==
  \/ StepBr
  \/ StepSwitch
  \/ StepExit
  \/ CheckMemoryUsage
  \/ UpdateStates
  \/ StartSearch
  \/ RunReturn

SpecRun == InitRun /\ [][NextRun]_vars

(* ---------------- SpecHalt: runs that are told to halt ---------------- *)
HaltOpts ==
  { [ OptDefault EXCEPT !.DumpStatesOnHalt = d, !.MaxInstructions = mi,
                        !.ExitOnErrorType = x ] :
      d \in BOOLEAN, mi \in { 0, 2 }, x \in { {}, { "Exec" } } }

InitHalt == \E o \in HaltOpts, sm \in RunSeeds : RunStart(o, sm, 0)

NextHalt ==
  \/ StepBr
  \/ StepExit
  \/ StepUnreachable
  \/ StepSwitchUnsolved
  \/ HaltTimer
  \/ CheckMemoryUsage
  \/ UpdateStates
  \/ StartSearch
  \/ RunReturn

SpecHalt == InitHalt /\ [][NextHalt]_vars

(* ------------------ SpecCall: runs of Call and Ret -------------------- *)
\* the function pointers the program calls through: a function, no
\* function, one of the two functions by the input, a function or none
\* by the input
FpExprs ==
  { ConstFp(100), ConstFp(7),
    SymFp([ x \in Dom |-> IF x = 0 THEN 100 ELSE 200 ]),
    SymFp([ x \in Dom |-> 200 ]),
    SymFp([ x \in Dom |-> IF x = 0 THEN 7 ELSE 100 ]) }

\* what the indirect call draws from outside: the solver answering
\* getValue and its model, theRNG of an inhibited fork
\* the addresses the handler computes from the binary: one the recorded
\* address expression can take and one it cannot
AawTargets == { 2, 9 }

\* what the indirect call finds outside the engine when the issuing state
\* has WriteExploitCapability entries
AawNd(E, s) ==
  IF E.est[s].WriteExploitCapability = {}
  THEN { [ symbol |-> "found", fp |-> 0 ] }
  ELSE [ symbol : { "found", "missing", "noglobal" }, fp : AawTargets ]

CallNd(E, s, v) ==
  { nd \in [ solverOk : BOOLEAN, rng : BOOLEAN, val : Dom,
             aaw : AawNd(E, s) ] :
      /\ ~nd.solverOk => (~v.const /\ ~nd.rng /\ nd.val = 0)
      /\ nd.val /= 0 => (~v.const /\ nd.val \in Models(E.est[s].cons))
      /\ nd.rng => (~v.const /\ forkInhibited(E, s)
                                /\ s \notin DOMAIN E.seedMap) }

\* one iteration on a Call through a function pointer
StepCall ==
  \E s \in Selectable, v \in FpExprs :
   \E nd \in CallNd(Eng, s, v) :
     /\ CanStep
     /\ nextId <= MaxStates
     /\ AfterStep(s, executeCallIndirect(stepInstruction(Eng, s), s, v, nd),
                  [ op |-> "Call", s |-> s, v |-> v, pre |-> est[s] ])

\* the values a function returns: one or two bytes, the top bit set or not
RetValues ==
  { << ConstByte(1) >>, << ConstByte(255) >>,
    << ConstByte(2), ConstByte(128) >> }

\* the call instructions a frame can return to
CallSites ==
  { cs \in [ invoke : BOOLEAN, normalDest : { 30 }, to : 0 .. 2,
             isSExt : BOOLEAN, used : BOOLEAN ] :
      /\ cs.used => cs.to /= 0
      /\ cs.isSExt => cs.to /= 0 }

\* one iteration on a Ret
StepRet ==
  \E s \in Selectable, isVoidReturn \in BOOLEAN, result \in RetValues,
     cs \in CallSites :
     /\ CanStep
     /\ isVoidReturn => result = << ConstByte(1) >>
     /\ Len(est[s].stack) <= 1 =>
           cs = [ invoke |-> FALSE, normalDest |-> 30, to |-> 0,
                  isSExt |-> FALSE, used |-> FALSE ]
     /\ AfterStep(s, executeRet(stepInstruction(Eng, s), s, isVoidReturn,
                                result, cs),
                  [ op |-> "Ret", s |-> s, isVoidReturn |-> isVoidReturn,
                    result |-> result, cs |-> cs, pre |-> est[s] ])

CallOpts == { OptDefault, [ OptDefault EXCEPT !.MaxForks = 0 ] }

InitCall == \E o \in CallOpts, sm \in RunSeeds : RunStart(o, sm, 0)

NextCall ==
  \/ StepCall
  \/ StepRet
  \/ CheckMemoryUsage
  \/ UpdateStates
  \/ StartSearch
  \/ RunReturn

SpecCall == InitCall /\ [][NextCall]_vars

(* -------------------- SpecFree: runs of free ------------------------- *)
\* a global, an alloca of main and an object of malloc
Glob ==
  [ name |-> "glob", address |-> 1, size |-> 1, isLocal |-> FALSE,
    isGlobal |-> TRUE, isHeap |-> FALSE ]

Loc ==
  [ name |-> "loc", address |-> 2, size |-> 1, isLocal |-> TRUE,
    isGlobal |-> FALSE, isHeap |-> FALSE ]

Heap ==
  [ name |-> "heap", address |-> 4, size |-> 2, isLocal |-> FALSE,
    isGlobal |-> FALSE, isHeap |-> TRUE ]

FreeObjects == << Glob, Loc, Heap >>

\* the pointers given to free: null, the three bases, the inside of the
\* heap object, an address of no object, and expressions over the input
FreePtrs ==
  { ConstFp(0), ConstFp(1), ConstFp(2), ConstFp(4), ConstFp(5), ConstFp(7),
    SymFp([ x \in Dom |-> IF x = 0 THEN 0 ELSE 4 ]),
    SymFp([ x \in Dom |-> IF x = 0 THEN 0 ELSE IF x = 1 THEN 4 ELSE 2 ]),
    SymFp([ x \in Dom |-> IF x = 0 THEN 4 ELSE IF x = 1 THEN 5 ELSE 1 ]) }

\* what free draws from outside: the solver answering the null test and
\* the comparisons of resolveExact, theRNG of an inhibited fork
FreeNd(E, s, p) ==
  { nd \in [ solverOk : BOOLEAN, exactOk : BOOLEAN, rng : BOOLEAN ] :
      /\ ~nd.solverOk => (~p.const /\ nd.exactOk /\ ~nd.rng)
      /\ ~nd.exactOk => (~p.const /\ ~nd.rng)
      /\ nd.rng => (~p.const /\ forkInhibited(E, s)) }

FreePre(s) ==
  [ est |-> est, nextId |-> nextId, tests |-> testCases,
    emitted |-> emittedErrors, inhibited |-> forkInhibited(Eng, s) ]

\* one iteration on a call of free
StepFree ==
  \E s \in Selectable, p \in FreePtrs :
   \E nd \in FreeNd(Eng, s, p) :
     /\ CanStep
     /\ nextId - 2 + Cardinality({ p.at[x] : x \in Dom }) <= MaxStates
     /\ AfterStep(s, executeFree(stepInstruction(Eng, s), s, p, nd),
                  [ op |-> "Free", s |-> s, p |-> p, nd |-> nd,
                    pre |-> FreePre(s) ])

FreeOpts == { OptDefault, [ OptDefault EXCEPT !.MaxForks = 0 ] }

\* a run over the three objects: the initial state has them bound
FreeStart(o, hl, hh, cons) ==
    /\ states = {1}
    /\ addedStates = << >>
    /\ removedStates = << >>
    /\ seedMap = << >>
    /\ est = (1 :> [ InitState(FALSE, cons) EXCEPT
                       !.mem = [ n \in { "glob", "loc", "heap" } |->
                                   [ readOnly |-> FALSE,
                                     cells |-> << ConstByte(0) >> ] ],
                       !.heap_allocs = << [ mo |-> "heap", req |-> 1,
                                            answered |-> TRUE ] >> ])
    /\ ptree = (1 :> << >>)
    /\ forks = 0
    /\ replayPosition = 0
    /\ atMemoryLimit = FALSE
    /\ inhibitForking = FALSE
    /\ haltExecution = FALSE
    /\ nextId = 2
    /\ testCases = {}
    /\ emittedErrors = {}
    /\ aborted = FALSE
    /\ opt = o
    /\ searcherOn = FALSE
    /\ searcherStates = {}
    /\ instructions = 0
    /\ OnlySeed = FALSE
    /\ symFpName = << >>
    /\ fpAddress = << >>
    /\ isSymFpValue = FALSE
    /\ memObjects = FreeObjects
    /\ n_heap_l = hl
    /\ n_heap_h = hh
    /\ phase = "select"
    /\ cur = NULL
    /\ lastState = NULL
    /\ ret = NoRet
    /\ NmeIdle

InitFree == \E o \in FreeOpts : FreeStart(o, 0, 0, {})

NextFree ==
  \/ StepFree
  \/ CheckMemoryUsage
  \/ UpdateStates
  \/ StartSearch
  \/ RunReturn

SpecFree == InitFree /\ [][NextFree]_vars

(* --------------- SpecSwitch: runs of Switch instructions -------------- *)
\* the switch instructions of the runs: cases with a block each, cases
\* sharing a block, a case sharing the block of the default, and cases that
\* leave the default no value
SwitchInsts ==
  SwitchCases \cup
  { [ succ |-> (0 :> 10) @@ (1 :> 10), dflt |-> 20 ],
    [ succ |-> (0 :> 10) @@ (1 :> 20), dflt |-> 20 ],
    [ succ |-> (0 :> 10) @@ (1 :> 20) @@ (2 :> 10), dflt |-> 30 ] }

\* one iteration on a Switch instruction
StepSwitchInst ==
  \E s \in Selectable, si \in SwitchInsts :
   \E nd \in BranchNd(Eng, s, switchConditions(Eng, s, si)) :
   \E r \in { Switch(stepInstruction(Eng, s), s, si, nd) } :
     /\ CanStep
     /\ r.E.nextId - 1 <= MaxStates
     /\ AfterStep(s, r.E,
                  [ op |-> "Switch", s |-> s, si |-> si,
                    unique |-> toUnique(Eng, s),
                    conds |-> switchConditions(Eng, s, si),
                    bbOrder |-> switchTargets(Eng, s, si).bbOrder,
                    result |-> r.result, pre |-> Pre(s) ])

SwitchOpts == { OptDefault, [ OptDefault EXCEPT !.MaxForks = 0 ] }

InitSwitch == \E o \in SwitchOpts : RunStart(o, {}, 0)

NextSwitch ==
  \/ StepSwitchInst
  \/ StepExit
  \/ CheckMemoryUsage
  \/ UpdateStates
  \/ StartSearch
  \/ RunReturn

SpecSwitch == InitSwitch /\ [][NextSwitch]_vars

(* ------------- SpecIndirect: runs of IndirectBr instructions ---------- *)
\* the label lists: two labels, a repeated label, a label for every value
\* of the address, one label
IndirectInsts == { << 0, 1 >>, << 0, 0 >>, << 0, 1, 2 >>, << 1 >> }

\* one iteration on an IndirectBr instruction
StepIndirectBr ==
  \E s \in Selectable, bi \in IndirectInsts, ub \in IndirectUb :
   \E nd \in BranchNd(Eng, s, indirectExpressions(Eng, s, bi)) :
   \E r \in { IndirectBr(stepInstruction(Eng, s), s, bi, nd, ub) } :
     /\ CanStep
     /\ r.E.nextId - 1 <= MaxStates
     /\ AfterStep(s, r.E,
                  [ op |-> "IndirectBr", s |-> s, bi |-> bi,
                    unique |-> toUnique(Eng, s),
                    targets |-> indirectTargets(Eng, s, bi).targets,
                    expressions |-> indirectExpressions(Eng, s, bi),
                    errorCase |-> indirectErrorFeasible(Eng, s, bi),
                    result |-> r.result, nullDeref |-> r.nullDeref,
                    pre |-> Pre(s) ])

IndirectOpts == { OptDefault, [ OptDefault EXCEPT !.MaxForks = 0 ] }

InitIndirect == \E o \in IndirectOpts : RunStart(o, {}, 0)

NextIndirect ==
  \/ StepIndirectBr
  \/ CheckMemoryUsage
  \/ UpdateStates
  \/ StartSearch
  \/ RunReturn

SpecIndirect == InitIndirect /\ [][NextIndirect]_vars

(* ------------- SpecLimit: runs that reach the memory cap -------------- *)
\* the memory in use, in MB, when checkMemoryUsage is called
LimitSamples == MemSamples \cup { 4100 }

LimitPre ==
  [ states |-> states, removed |-> removedStates, tests |-> testCases,
    atMemoryLimit |-> atMemoryLimit, step |-> ret.op ]

\* the call of checkMemoryUsage of an iteration, with the memory in use
\* and the states it picked
CheckMemoryUsageAt ==
  /\ phase = "checkmem"
  /\ \E mbs \in LimitSamples :
      \E arr \in IF /\ opt.MaxMemory /= 0
                    /\ instructions % SamplePeriod = 0
                    /\ mbs > opt.MaxMemory + 100
                 THEN LET k == toKill(Eng, mbs)
                          n == Cardinality(states)
                      IN  Pulls(states, IF k < n THEN k ELSE n)
                 ELSE { << >> } :
        /\ SetEng(checkMemoryUsage(Eng, mbs, arr))
        /\ ret' = [ op |-> "checkMemoryUsage", mbs |-> mbs, pre |-> LimitPre ]
  /\ phase' = "update"
  /\ UNCHANGED << nmeVars, envVars, cur, lastState >>

LimitOpts == { OptDefault, [ OptDefault EXCEPT !.MaxMemory = 0 ] }

\* the run is one instruction before a multiple of the sampling period
InitLimit == \E o \in LimitOpts : RunStart(o, {}, 2 * SamplePeriod - 2)

NextLimit ==
  \/ StepBr
  \/ StepSwitch
  \/ StepExit
  \/ CheckMemoryUsageAt
  \/ UpdateStates
  \/ StartSearch
  \/ RunReturn

SpecLimit == InitLimit /\ [][NextLimit]_vars

(* ------------- SpecStack: runs of calls under a frame limit ----------- *)
StackOpts ==
  { [ OptDefault EXCEPT !.RuntimeMaxStackFrames = N ] : N \in { 1, 2 } }

InitStack == \E o \in StackOpts : RunStart(o, {}, 0)

NextStack ==
  \/ StepCall
  \/ StepRet
  \/ CheckMemoryUsage
  \/ UpdateStates
  \/ StartSearch
  \/ RunReturn

SpecStack == InitStack /\ [][NextStack]_vars

(* --------------- SpecExt: runs of external calls ---------------------- *)
ExtOpts ==
  { [ OptDefault EXCEPT !.ExternalCalls = pol ] :
      pol \in { "none", "concrete", "all" } }

\* the external functions the program calls
ExtFunctions == { "puts", "getenv" }

\* the arguments: constants, the input, an address that depends on it
ExtArguments ==
  { << >>, << ConstFp(1) >>, << ConstFp(0) >>, << ConstFp(7) >>,
    << SymFp([ x \in Dom |-> x ]) >>,
    << ConstFp(4), SymFp([ x \in Dom |-> IF x = 0 THEN 7 ELSE 4 ]) >> }

\* what the call draws from outside: the special function handler taking
\* it, the solver answering getValue and toUnique and its model, errno
\* being constant, the dispatcher succeeding, memory copied back
ExtNd(E, s, arguments) ==
  { nd \in [ handled : BOOLEAN, solverOk : BOOLEAN, uniqueOk : BOOLEAN,
             errnoConst : BOOLEAN, execOk : BOOLEAN, copyInOk : BOOLEAN,
             val : Dom ] :
      /\ nd.handled =>
            (nd.solverOk /\ nd.uniqueOk /\ nd.errnoConst /\ nd.execOk
               /\ nd.copyInOk /\ nd.val = 0)
      /\ ~nd.solverOk =>
            (opt.ExternalCalls = "all" /\ arguments /= << >> /\ nd.uniqueOk
               /\ nd.errnoConst /\ nd.execOk /\ nd.copyInOk /\ nd.val = 0)
      /\ ~nd.uniqueOk =>
            (opt.ExternalCalls /= "all"
               /\ \E i \in 1 .. Len(arguments) : ~arguments[i].const)
      /\ nd.val /= 0 =>
            /\ nd.val \in Models(E.est[s].cons)
            /\ \E i \in 1 .. Len(arguments) : ~arguments[i].const
      /\ ~nd.execOk => (nd.errnoConst /\ nd.copyInOk)
      /\ ~nd.copyInOk => nd.errnoConst }

\* one iteration on a call of a function without a body
StepExternal ==
  \E s \in Selectable, f \in ExtFunctions, arguments \in ExtArguments :
   \E nd \in ExtNd(Eng, s, arguments) :
   \E r \in { callExternalFunction(stepInstruction(Eng, s), s, f,
                                    arguments, nd) } :
     /\ CanStep
     /\ Stepped < MaxExtCalls
     /\ AfterStep(s, r.E,
                  [ op |-> "External", s |-> s, f |-> f,
                    arguments |-> arguments, nd |-> nd, call |-> r.call,
                    pre |-> est[s] ])

\* the native heap range: not set up, or around the heap object
ExtHeapRanges == { << 0, 0 >>, << 3, 6 >> }

InitExt ==
  \E o \in ExtOpts, hr \in ExtHeapRanges, cons \in { {}, { SymCond({1}) } } :
    FreeStart(o, hr[1], hr[2], cons)

NextExt ==
  \/ StepExternal
  \/ CheckMemoryUsage
  \/ UpdateStates
  \/ StartSearch
  \/ RunReturn

SpecExt == InitExt /\ [][NextExt]_vars

(* ------------ SpecTerm: calls of the terminate functions -------------- *)
TermOpts ==
  { [ OptDefault EXCEPT !.OnlyOutputStatesCoveringNew = o,
                        !.EmitAllErrors = e, !.AlwaysOutputSeeds = a ] :
      o \in BOOLEAN, e \in BOOLEAN, a \in BOOLEAN }

\* the call stacks of a state: in main, in a runtime function called from
\* main, in a program function the runtime function calls back, in a
\* program function called from main
TermStacks ==
  { << [ kf |-> "main", caller |-> NULL ] >>,
    << [ kf |-> "main", caller |-> NULL ],
       [ kf |-> "klee_internal", caller |-> 3 ] >>,
    << [ kf |-> "main", caller |-> NULL ],
       [ kf |-> "klee_internal", caller |-> 3 ],
       [ kf |-> "cmp", caller |-> 4 ] >>,
    << [ kf |-> "main", caller |-> NULL ],
       [ kf |-> "cmp", caller |-> 3 ] >> }

\* two states after a fork on x = 0, inside an instruction: at the same
\* instruction or at two, having covered new code or not, with their
\* seeds or without
InitTerm ==
  \E o \in TermOpts, stk \in TermStacks, p2 \in { 5, 6 },
     cn \in { << TRUE, TRUE >>, << TRUE, FALSE >>, << FALSE, FALSE >> },
     sd \in { {}, {2}, {1, 2} } :
    /\ states = {1, 2}
    /\ addedStates = << >>
    /\ removedStates = << >>
    /\ seedMap = [ s \in sd |-> { [ id |-> s, val |-> s - 1 ] } ]
    /\ est = [ s \in {1, 2} |->
                [ InitState(FALSE, { IF s = 1 THEN SymCond({0})
                                     ELSE SymCond(Dom \ {0}) })
                    EXCEPT !.prevPC = IF s = 1 THEN 5 ELSE p2,
                           !.pc = (IF s = 1 THEN 5 ELSE p2) + 1,
                           !.depth = 1, !.coveredNew = cn[s],
                           !.stack = stk ] ]
    /\ ptree = (1 :> << 1 >>) @@ (2 :> << 0 >>)
    /\ forks = 1
    /\ replayPosition = 0
    /\ atMemoryLimit = FALSE
    /\ inhibitForking = FALSE
    /\ haltExecution = FALSE
    /\ nextId = 3
    /\ testCases = {}
    /\ emittedErrors = {}
    /\ aborted = FALSE
    /\ opt = [ o EXCEPT !.usingSeeds = sd /= {} ]
    /\ searcherOn = (sd = {})
    /\ searcherStates = IF sd = {} THEN {1, 2} ELSE {}
    /\ instructions = 2
    /\ OnlySeed = FALSE
    /\ symFpName = << >>
    /\ fpAddress = << >>
    /\ isSymFpValue = FALSE
    /\ memObjects = << >>
    /\ n_heap_l = 0
    /\ n_heap_h = 0
    /\ phase = "call"
    /\ cur = NULL
    /\ lastState = NULL
    /\ ret = NoRet
    /\ NmeIdle

\* what a terminate call found on entry
TermPre == [ tests |-> testCases, emitted |-> emittedErrors ]

TermCall(E, op, s, msg, reason) ==
  /\ s \notin Range(removedStates)
  /\ SetEng(E)
  /\ ret' = [ op |-> op, s |-> s, msg |-> msg, reason |-> reason,
              pre |-> TermPre ]
  /\ UNCHANGED << nmeVars, envVars, loopVars >>

CallTerminateOnExit ==
  \E s \in states :
    TermCall(terminateStateOnExit(Eng, s), "terminateStateOnExit", s, "", "")

CallTerminateEarly ==
  \E s \in states :
    TermCall(terminateStateEarly(Eng, s, "Memory limit exceeded."),
             "terminateStateEarly", s, "Memory limit exceeded.", "early")

\* the messages and reasons of the errors
ErrorKinds ==
  { << "reached \"unreachable\" instruction", "Exec" >>,
    << "memory error: out of bound pointer", "Ptr" >> }

CallTerminateOnError ==
  \E s \in states, k \in ErrorKinds :
    TermCall(terminateStateOnError(Eng, s, k[1], k[2]),
             "terminateStateOnError", s, k[1], k[2])

NextTerm ==
  \/ CallTerminateOnExit
  \/ CallTerminateEarly
  \/ CallTerminateOnError

SpecTerm == InitTerm /\ [][NextTerm]_vars

(* --------------- SpecMem: runs of Load and Store ---------------------- *)
\* the globals of the program and one heap allocation.  handler and table
\* are function pointers, table is declared const; fp_hook has a name the
\* Store handler passes over; buf is not in globalAddresses.
Handler ==
  [ name |-> "handler", address |-> 1, size |-> 1, isPointerTy |-> TRUE,
    plainName |-> TRUE, isConstant |-> FALSE ]

Table ==
  [ name |-> "table", address |-> 2, size |-> 1, isPointerTy |-> TRUE,
    plainName |-> TRUE, isConstant |-> TRUE ]

FpHook ==
  [ name |-> "fp_hook", address |-> 2, size |-> 1, isPointerTy |-> TRUE,
    plainName |-> FALSE, isConstant |-> FALSE ]

Buf ==
  [ name |-> "buf", address |-> 4, size |-> 2, isPointerTy |-> FALSE,
    plainName |-> FALSE, isConstant |-> FALSE ]

\* globalAddresses is ordered by the addresses of the llvm::GlobalValues
MemLayouts ==
  { << Handler, Table, Buf >>, << Table, Handler, Buf >>,
    << Handler, FpHook, Buf >> }

\* the native heap range: not set up, or around the allocation
HeapRanges == { << 0, 0 >>, << 3, 6 >> }

\* initializeGlobals: every object is bound; the objects of constant
\* globals are read-only
initializeGlobals(objs) ==
  [ n \in { objs[i].name : i \in 1 .. Len(objs) } |->
      LET mo == CHOOSE m \in Range(objs) : m.name = n
      IN  [ readOnly |-> mo.isConstant,
            cells |-> [ i \in 1 .. mo.size |->
                          ConstByte(IF mo.isPointerTy THEN 5 ELSE 0) ] ] ]

\* the seeding of a run: no seeds, seeds, seeds with only-seed
MemSeeding == { << FALSE, FALSE >>, << TRUE, FALSE >>, << TRUE, TRUE >> }

MemStart(objs, hr, sd) ==
    /\ states = {1}
    /\ addedStates = << >>
    /\ removedStates = << >>
    /\ seedMap = IF sd[1] THEN (1 :> { [ id |-> 1, val |-> 0 ] }) ELSE << >>
    /\ est = (1 :> [ InitState(FALSE, {}) EXCEPT !.mem = initializeGlobals(objs) ])
    /\ ptree = (1 :> << >>)
    /\ forks = 0
    /\ replayPosition = 0
    /\ atMemoryLimit = FALSE
    /\ inhibitForking = FALSE
    /\ haltExecution = FALSE
    /\ nextId = 2
    /\ testCases = {}
    /\ emittedErrors = {}
    /\ aborted = FALSE
    /\ opt = [ OptDefault EXCEPT !.usingSeeds = sd[1] ]
    /\ searcherOn = FALSE
    /\ searcherStates = {}
    /\ instructions = 0
    /\ OnlySeed = sd[2]
    /\ symFpName = << >>
    /\ fpAddress = << >>
    /\ isSymFpValue = FALSE
    /\ memObjects = objs
    /\ n_heap_l = hr[1]
    /\ n_heap_h = hr[2]
    /\ phase = "select"
    /\ cur = NULL
    /\ lastState = NULL
    /\ ret = NoRet
    /\ NmeIdle

InitMem ==
  \E objs \in MemLayouts, hr \in HeapRanges, sd \in MemSeeding :
    MemStart(objs, hr, sd)

\* the address operands: the constants and an expression over the input
Addresses == { ConstAddr(a) : a \in 1 .. MaxAddr } \cup { SymAddr }

\* the widths of the loads, in bytes
LoadBytes == { 1, 2 }

\* what an instruction found on entry
MemPre(s) ==
  [ mem |-> est[s].mem, local |-> est[s].local, tests |-> testCases,
    fpAddress |-> fpAddress ]

\* one iteration on a Load instruction
StepLoad ==
  \E s \in Selectable, base \in Addresses, bytes \in LoadBytes :
     /\ CanStep
     /\ AfterStep(s, executeLoad(stepInstruction(Eng, s), s, base, bytes),
                  [ op |-> "Load", s |-> s, base |-> base, value |-> << >>,
                    bytes |-> bytes, pre |-> MemPre(s) ])

\* the value operands of the stores: constants of one and two bytes, an
\* argument that reads the input, the result of the last load
StoreValues(s) ==
  { << "constant", << ConstByte(1) >> >>,
    << "constant", << ConstByte(1), ConstByte(1) >> >>,
    << "argument", << SymByte("x", 0, 0) >> >> }
  \cup (IF est[s].local = << >> THEN {}
        ELSE { << "instruction", est[s].local >> })

\* what the run draws from outside on a Store: the outcome of the read of
\* inst_temp and what the seed holds for an object made symbolic
StoreNd(s, base, v) ==
  { nd \in [ ub : { "none", "crash" }, seedInput : { "ok", "none", "mismatch" } ] :
      /\ nd.ub = "crash" =>
           /\ v[1] = "instruction" /\ isConstantExpr(v[2])
           /\ base.const /\ base.a \in Range(fpAddress)
      /\ nd.seedInput /= "ok" => (~base.const /\ s \in DOMAIN seedMap) }

\* one iteration on a Store instruction
StepStore ==
  \E s \in Selectable, base \in Addresses :
   \E v \in StoreValues(s) :
   \E nd \in StoreNd(s, base, v) :
     /\ CanStep
     /\ AfterStep(s, executeStore(stepInstruction(Eng, s), s, base, v[2], v[1],
                                  nd.ub, nd.seedInput),
                  [ op |-> "Store", s |-> s, base |-> base, value |-> v[2],
                    bytes |-> Len(v[2]), pre |-> MemPre(s) ])

\* one iteration on a Store of a constant byte through the non-constant
\* address
StepStoreSymbolic ==
  \E s \in Selectable :
     /\ CanStep
     /\ AfterStep(s, executeStore(stepInstruction(Eng, s), s, SymAddr,
                                  << ConstByte(1) >>, "constant", "none", "ok"),
                  [ op |-> "Store", s |-> s, base |-> SymAddr,
                    value |-> << ConstByte(1) >>, bytes |-> 1,
                    pre |-> MemPre(s) ])

(* ------- SpecIso: stores of several states in one run ----------------- *)
\* the engine in which no Store has yet registered a name or an address:
\* the function-local statics of the Store handler at their initial values
storeUnregistered(E) ==
  [ E EXCEPT !.symFpName = << >>, !.fpAddress = << >>,
             !.isSymFpValue = FALSE ]

\* what a Store has done to the state s that executed it: its memory and
\* bookkeeping, whether it ended, the addresses the Store registered
storeEffect(E, s, before) ==
  [ mem |-> E.est[s].mem, local |-> E.est[s].local,
    wec |-> E.est[s].WriteExploitCapability,
    arrayNames |-> E.est[s].arrayNames,
    ended |-> s \in Range(E.removed), aborted |-> E.aborted,
    registered |-> SubSeq(E.fpAddress, before + 1, Len(E.fpAddress)) ]

StoreIsoNext(s, base, v, E, alone) ==
  AfterStep(s, E,
            [ op |-> "Store", s |-> s, base |-> base, value |-> v[2],
              bytes |-> Len(v[2]), pre |-> MemPre(s),
              own |-> est[s].WriteExploitCapability = {},
              writes |-> IF base.const
                         THEN storeWrites(v[2], base.a \in Range(fpAddress))
                         ELSE 0,
              alone |-> alone ])

\* one iteration on a Store instruction; alone is the effect the same
\* instruction has on the same state when no Store has registered anything
StepStoreIso ==
  \E s \in Selectable, base \in Addresses :
   \E v \in StoreValues(s) :
   \E nd \in StoreNd(s, base, v) :
     /\ CanStep
     /\ StoreIsoNext(s, base, v,
          executeStore(stepInstruction(Eng, s), s, base, v[2], v[1],
                       nd.ub, nd.seedInput),
          storeEffect(
            executeStore(storeUnregistered(stepInstruction(Eng, s)), s, base,
                         v[2], v[1], nd.ub, nd.seedInput), s, 0))

InitIso == MemStart(<< Handler, Table, Buf >>, << 0, 0 >>, << FALSE, FALSE >>)

NextIso ==
  \/ StepBr
  \/ StepStoreIso
  \/ CheckMemoryUsage
  \/ UpdateStates
  \/ StartSearch
  \/ RunReturn

SpecIso == InitIso /\ [][NextIso]_vars

(* ----- SpecAaw: symbolic stores followed by calls through pointers ----- *)
InitAaw == MemStart(<< Handler, Table, Buf >>, << 0, 0 >>, << FALSE, FALSE >>)

NextAaw ==
  \/ StepStoreSymbolic
  \/ StepCall
  \/ CheckMemoryUsage
  \/ UpdateStates
  \/ StartSearch
  \/ RunReturn

SpecAaw == InitAaw /\ [][NextAaw]_vars

(* -------- SpecNme: heap requests to the native helper, step by step ---- *)
MaxNmeInstr == 5   \* instructions stepped in one run of heap requests

\* operator!= of HeapAlloc (lib/Core/ExecutionState.h): the requests
\* differ in a member
HeapAllocNe(a, b) == a /= b

\* lines 520-525 and 548-553: the request number is flipped
flipReq(h) == [ h EXCEPT !.req = IF @ = 1 THEN 2 ELSE 1 ]

\* lines 507-513: the loop over i; S and L are the heap_allocs of state and
\* of last_state, indexed from 0 in the code; oob tells that S[i] was read
\* with i outside S
RECURSIVE nmeMismatch(_, _, _, _)
nmeMismatch(S, L, k, i) ==
  IF i >= Len(L) THEN [ i |-> i, oob |-> FALSE ]
  ELSE IF i = k THEN [ i |-> i, oob |-> FALSE ]
  ELSE IF i >= Len(S) THEN [ i |-> i, oob |-> TRUE ]
  ELSE IF HeapAllocNe(S[i + 1], L[i + 1]) THEN [ i |-> i, oob |-> FALSE ]
  ELSE nmeMismatch(S, L, k, i + 1)

\* for (j = hi; j >= lo; j --) v.push_back(flipped last_state->heap_allocs[j])
nmeRollBack(L, hi, lo) ==
  [ n \in 1 .. (hi - lo + 1) |-> flipReq(L[hi - n + 2]) ]

\* for (j = lo; j < state->heap_allocs.size(); j ++) v.push_back(...)
nmeForward(S, lo) == SubSeq(S, lo + 1, Len(S))

\* lines 498-567: the request vector v
nmeRequests(S, L, same, new_alloc) ==
  LET k == Len(S) - 2
      q == Len(L) - 1
      m == nmeMismatch(S, L, k, 0)
      v == IF same THEN << S[Len(S)] >>
           ELSE IF m.i = k
           THEN nmeRollBack(L, q, k + 1) \o << S[Len(S)] >>
           ELSE IF m.i = q THEN nmeForward(S, q + 1)
           ELSE nmeRollBack(L, q, m.i) \o nmeForward(S, m.i)
  IN  [ v |-> IF new_alloc THEN v ELSE Tail(v), oob |-> ~same /\ m.oob ]

\* the address the helper gives the object of a malloc request
nativeAddressOf(mo) == n_heap_l + 16 * mo

\* the helper executes the requests 1 .. n of the buffer on its heap
RECURSIVE helperHeap(_, _, _)
helperHeap(live, buf, n) ==
  IF n = 0 THEN live
  ELSE LET before == helperHeap(live, buf, n - 1)
       IN  IF buf[n].req = 1 THEN before \cup { buf[n].mo }
           ELSE before \ { buf[n].mo }

\* and writes the address of every malloc request into its entry
helperResponses(buf, n) ==
  [ i \in 1 .. Len(buf) |->
      IF i <= n /\ buf[i].req = 1
      THEN [ buf[i] EXCEPT !.nativeAddress = nativeAddressOf(buf[i].mo) ]
      ELSE buf[i] ]

\* the run loop goes on and no request is in progress
NmeCanStep ==
  /\ phase = "select" /\ ~aborted /\ ~haltExecution
  /\ searcherOn => states /= {}
  /\ Stepped < MaxNmeInstr
  /\ nmeCall.pc = "idle"

\* one iteration on a Br whose two sides are feasible
StepNmeBr ==
  \E s \in Selectable :
   \E nd \in ForkNd(Eng, s, SymCond({0})) :
     /\ NmeCanStep
     /\ nextId <= MaxStates
     /\ nd.solverOk
     /\ AfterStep(s, executeBr(stepInstruction(Eng, s), s, SymCond({0}), nd),
                  [ op |-> "Br", s |-> s, cond |-> SymCond({0}),
                    solverOk |-> TRUE ])

\* nme_req is entered with the request h pushed on the heap_allocs of the
\* state: lines 498-567
NmeEnter(s, E, h, op) ==
  LET S == Append(E.est[s].heap_allocs, h)
      same == last_state = s \/ last_state = NULL
      L == IF last_state \in DOMAIN E.est THEN E.est[last_state].heap_allocs
           ELSE << >>
      r == nmeRequests(S, L, same, TRUE)
  IN  /\ SetEng([ E EXCEPT !.est[s].heap_allocs = S,
                          !.aborted = r.oob ])
      /\ nmeCall' = [ pc |-> "copy", state |-> s, op |-> op, mo |-> h.mo,
                      v |-> r.v, oob |-> r.oob, same |-> same,
                      S |-> S, L |-> L ]
      /\ phase' = "nme"
      /\ UNCHANGED << envVars, cur, lastState, ret, last_state, nme_buf,
                      kn_indicator, nativeHeap >>

\* executeAlloc with isheap, lines 4519-4533: the object is allocated, the
\* request is pushed and nme_req is called
StepMalloc ==
  \E s \in Selectable :
     /\ NmeCanStep
     /\ NmeEnter(s, stepInstruction(Eng, s),
                 [ mo |-> instructions + 1, req |-> 1, nativeAddress |-> 0 ],
                 "Malloc")

\* Mo->address of a heap object: the address recorded when it was allocated
addressOf(S, mo) ==
  (CHOOSE h \in Range(S) : h.mo = mo /\ h.req = 1).nativeAddress

\* executeFree of a pointer to a heap object of the state, lines 4693-4700
StepFreeHeap ==
  \E s \in Selectable :
   \E mo \in DOMAIN est[s].mem :
     /\ NmeCanStep
     /\ NmeEnter(s, stepInstruction(Eng, s),
                 [ mo |-> mo, req |-> 2,
                   nativeAddress |-> addressOf(est[s].heap_allocs, mo) ],
                 "Free")

\* line 569: memcpy(nme_buf, &v[0], v.size()*sizeof(struct HeapAlloc))
NmeCopy ==
  /\ nmeCall.pc = "copy" /\ ~aborted
  /\ nme_buf' = nmeCall.v \o SubSeq(nme_buf, Len(nmeCall.v) + 1, Len(nme_buf))
  /\ nmeCall' = [ nmeCall EXCEPT !.pc = "num" ]
  /\ UNCHANGED << envVars, loopVars, ret, last_state, kn_indicator,
                  nativeHeap >>
  /\ SetEng(Eng)

\* line 582: kn_indicator->num = v.size()
NmeNum ==
  /\ nmeCall.pc = "num"
  /\ kn_indicator' = [ kn_indicator EXCEPT !.num = Len(nmeCall.v) ]
  /\ nmeCall' = [ nmeCall EXCEPT !.pc = "flag" ]
  /\ UNCHANGED << envVars, loopVars, ret, last_state, nme_buf, nativeHeap >>
  /\ SetEng(Eng)

\* line 583: kn_indicator->flag = 1
NmeFlag ==
  /\ nmeCall.pc = "flag"
  /\ kn_indicator' = [ kn_indicator EXCEPT !.flag = 1 ]
  /\ nmeCall' = [ nmeCall EXCEPT !.pc = "wait" ]
  /\ UNCHANGED << envVars, loopVars, ret, last_state, nme_buf, nativeHeap >>
  /\ SetEng(Eng)

\* the helper finds the flag set, executes the requests and writes the
\* responses into the buffer
HelperServe ==
  /\ kn_indicator.flag = 1 /\ ~nativeHeap.serving
  /\ nativeHeap' = [ live |-> helperHeap(nativeHeap.live, nme_buf,
                                         kn_indicator.num),
                     serving |-> TRUE ]
  /\ nme_buf' = helperResponses(nme_buf, kn_indicator.num)
  /\ UNCHANGED << envVars, loopVars, ret, last_state, kn_indicator, nmeCall >>
  /\ SetEng(Eng)

\* the helper sets the flag back to 0
HelperDone ==
  /\ nativeHeap.serving
  /\ nativeHeap' = [ nativeHeap EXCEPT !.serving = FALSE ]
  /\ kn_indicator' = [ kn_indicator EXCEPT !.flag = 0 ]
  /\ UNCHANGED << envVars, loopVars, ret, last_state, nme_buf, nmeCall >>
  /\ SetEng(Eng)

\* lines 589-592: the loop ends when the flag is read as 0
NmeWait ==
  /\ nmeCall.pc = "wait"
  /\ kn_indicator.flag = 0
  /\ nmeCall' = [ nmeCall EXCEPT !.pc = "read" ]
  /\ UNCHANGED << envVars, loopVars, ret, last_state, nme_buf, kn_indicator,
                  nativeHeap >>
  /\ SetEng(Eng)

\* what lies before the buffer, read when num is 0
NativeGarbage == { 0, 99 }

\* nme_buf[(kn_indicator->num)-1].nativeAddress, line 603: the entry
\* before the buffer is read when num is 0
nmeResponses ==
  IF kn_indicator.num >= 1 /\ kn_indicator.num <= Len(nme_buf)
  THEN { nme_buf[kn_indicator.num].nativeAddress }
  ELSE NativeGarbage

\* the handler after nme_req: executeAlloc binds the object and its
\* address (4534-4564), executeFree unbinds the object (4706-4708)
nmeBound(E, s, op, mo, address) ==
  bindLocal(
    [ E EXCEPT !.est[s].mem =
        IF op = "Malloc"
        THEN [ m \in DOMAIN @ \cup { mo } |->
                 IF m = mo THEN [ readOnly |-> FALSE,
                                  cells |-> << ConstByte(0) >> ]
                 ELSE @[m] ]
        ELSE Restrict(@, DOMAIN @ \ { mo }) ],
    s, << ConstByte(IF op = "Malloc" THEN address ELSE 0) >>)

\* lines 599-618 and the rest of the handler and of the iteration: the
\* address is taken from the buffer, last_state is the requesting state
NmeReturn ==
  /\ nmeCall.pc = "read"
  /\ \E address \in nmeResponses, ub \in { "none", "crash" } :
       LET s == nmeCall.state
           n == Len(est[s].heap_allocs)
           E == [ Eng EXCEPT !.est[s].heap_allocs[n].nativeAddress = address,
                             !.aborted = ub = "crash" ]
       IN  /\ ub = "crash" => (kn_indicator.num = 0 /\ address = 0)
           /\ Iteration(s, nmeBound(E, s, nmeCall.op, nmeCall.mo, address),
                        [ op |-> nmeCall.op, s |-> s, v |-> nmeCall.v,
                          num |-> kn_indicator.num, buf |-> nme_buf,
                          address |-> address, ub |-> ub ])
  /\ last_state' = nmeCall.state
  /\ nmeCall' = [ pc |-> "idle" ]
  /\ UNCHANGED << nme_buf, kn_indicator, nativeHeap >>

InitNme == RunStart(OptDefault, {}, 0)

NextNme ==
  \/ StepNmeBr
  \/ StepMalloc
  \/ StepFreeHeap
  \/ NmeCopy
  \/ NmeNum
  \/ NmeFlag
  \/ HelperServe
  \/ HelperDone
  \/ NmeWait
  \/ NmeReturn
  \/ CheckMemoryUsage
  \/ UpdateStates
  \/ StartSearch

SpecNme == InitNme /\ [][NextNme]_vars

(* ------ SpecTrace: stores that trace a constant back to its Load ------ *)
MaxBody == 2   \* instructions of the function a Store traces back in

\* the opcodes the loop tells apart: a Load of a pointer (type id 15), a
\* Load of another type, and an instruction it passes over
Opcodes == { "LoadPtr", "Load", "Add" }

\* the functions of the program: kf->instructions
FunctionBodies == UNION { [ 1 .. n -> Opcodes ] : n \in 1 .. MaxBody }

\* what reading an uninitialized or out-of-range instruction can give: the
\* process dies, or what is read looks like a Load, or like something else
TraceReads == { "crash", "Load", "Other" }

\* the while loop of lines 3124-3250 with inst_temp not a Load: the
\* instruction i is read, for a Load that is not of a pointer i-1 as well,
\* and i is decremented; used are the indices read, oob what a read
\* outside the body gives
RECURSIVE backtraceLoop(_, _, _, _)
backtraceLoop(body, i, used, oob) ==
  IF i < 0
  THEN [ crash |-> oob = "crash", used |-> used \cup { i } ]
  ELSE IF body[i + 1] = "LoadPtr"
  THEN [ crash |-> FALSE, used |-> used \cup { i } ]
  ELSE IF body[i + 1] = "Load"
  THEN [ crash |-> i = 0 /\ oob = "crash", used |-> used \cup { i, i - 1 } ]
  ELSE backtraceLoop(body, i - 1, used \cup { i }, oob)

\* lines 3105-3263: the loop over kf->instructions finds the instruction
\* def whose dest is the operand (-1: none has it) and the while loop
\* starts with inst_temp not initialized: first is what reading it gives
backtrace(body, def, first, oob) ==
  IF def < 0 \/ first = "Load" THEN [ crash |-> FALSE, used |-> {} ]
  ELSE IF first = "crash" THEN [ crash |-> TRUE, used |-> {} ]
  ELSE backtraceLoop(body, def, {}, oob)

\* what a traced Store draws: the function, the defining instruction and
\* the outcomes of the undefined reads
TraceNd ==
  { nd \in [ body : FunctionBodies, def : -1 .. (MaxBody - 1),
             first : TraceReads, oob : { "crash", "Load" } ] :
      /\ nd.def < Len(nd.body)
      /\ nd.def < 0 => nd.first = "Other"
      /\ (nd.def < 0 \/ nd.first /= "Other") => nd.oob = "Load" }

\* one iteration on a Store of a constant that an instruction computed
StepStoreTrace ==
  \E s \in Selectable, base \in { ConstAddr(1), ConstAddr(4) } :
   \E nd \in TraceNd :
     /\ CanStep
     /\ AfterStep(s,
          executeStore(stepInstruction(Eng, s), s, base, << ConstByte(1) >>,
                       IF nd.def < 0 THEN "argument" ELSE "instruction",
                       IF backtrace(nd.body, nd.def, nd.first, nd.oob).crash
                       THEN "crash" ELSE "none",
                       "ok"),
          [ op |-> "Store", s |-> s, base |-> base,
            value |-> << ConstByte(1) >>, bytes |-> 1, pre |-> MemPre(s),
            traced |-> base.a \in Range(fpAddress), nd |-> nd,
            trace |-> backtrace(nd.body, nd.def, nd.first, nd.oob) ])

InitTrace == MemStart(<< Handler, Table, Buf >>, << 0, 0 >>, << FALSE, FALSE >>)

NextTrace ==
  \/ StepStoreSymbolic
  \/ StepStoreTrace
  \/ CheckMemoryUsage
  \/ UpdateStates
  \/ StartSearch

SpecTrace == InitTrace /\ [][NextTrace]_vars

(* --------- SpecVarargs: calls of variadic functions ------------------- *)
MaxVarargs == 2   \* variadic arguments of one call

\* Expr::getMinBytesForWidth
getMinBytesForWidth(w) == (w + 7) \div 8

\* llvm::alignTo
alignTo(x, a) == ((x + a - 1) \div a) * a

\* lines 1699-1725: the loop that computes the size of the varargs object
\* from the widths of the variadic arguments
varargsSize_unaligned(WordSize, widths) ==
  LET RECURSIVE sum(_, _)
      sum(size, i) ==
        IF i > Len(widths) THEN size
        ELSE IF WordSize = 32
        THEN sum(size + getMinBytesForWidth(widths[i]), i + 1)
        ELSE sum(size + alignTo(widths[i], WordSize) \div 8, i + 1)
  IN  sum(0, 1)

varargsSize(WordSize, widths) ==
  LET RECURSIVE sum(_, _)
      sum(size, i) ==
        IF i > Len(widths) THEN size
        ELSE IF WordSize = 32
        THEN sum(size + getMinBytesForWidth(widths[i]), i + 1)
        ELSE sum((IF widths[i] > 64 THEN alignTo(size, 16) ELSE size)
                   + alignTo(widths[i], WordSize) \div 8, i + 1)
  IN  sum(0, 1)

\* the allocation needs 16 byte alignment: an argument is wider than 64
requires16ByteAlignment(WordSize, widths) ==
  WordSize /= 32 /\ \E i \in 1 .. Len(widths) : widths[i] > 64

\* lines 1744-1768: the loop that writes the arguments; at is the offset
\* of each os->write, after the offset once it is written, and offset the
\* offset the loop ends with
varargsWrites(WordSize, widths) ==
  LET RECURSIVE put(_, _, _, _)
      put(offset, at, after, i) ==
        IF i > Len(widths)
        THEN [ at |-> at, after |-> after, offset |-> offset ]
        ELSE IF WordSize = 32
        THEN put(offset + getMinBytesForWidth(widths[i]),
                 Append(at, offset),
                 Append(after, offset + getMinBytesForWidth(widths[i])),
                 i + 1)
        ELSE LET o == IF widths[i] > 64 THEN alignTo(offset, 16) ELSE offset
             IN  put(o + alignTo(widths[i], WordSize) \div 8,
                     Append(at, o),
                     Append(after, o + alignTo(widths[i], WordSize) \div 8),
                     i + 1)
  IN  put(0, << >>, << >>, 1)

\* Executor::executeCall of a variadic function with a body, lines
\* 1652-1770: too few arguments and a failed allocation end the state
executeCallVarargs(E, s, f, WordSize, widths, few, alloc) ==
  LET E1 == executeCall(E, s, f)
  IN  IF Len(E1.est[s].stack) = Len(E.est[s].stack) THEN E1
      ELSE IF few
      THEN terminateStateOnError(E1, s,
             "calling function with too few arguments", "User")
      ELSE IF alloc = "fail" /\ varargsSize(WordSize, widths) /= 0
      THEN terminateStateOnError(E1, s, "out of memory (varargs)", "Exec")
      ELSE E1

\* the widths of the arguments the program passes: i1, i32, i64, x86_fp80
ArgWidths == { 1, 32, 64, 80 }

\* the variadic arguments of a call
VarargLists == UNION { [ 1 .. n -> ArgWidths ] : n \in 0 .. MaxVarargs }

\* Context::get().getPointerWidth()
WordSizes == { 32, 64 }

\* one iteration on a Call of a variadic function
StepCallVarargs ==
  \E s \in Selectable, WordSize \in WordSizes, widths \in VarargLists,
     few \in BOOLEAN, alloc \in { "ok", "fail" } :
     /\ CanStep
     /\ few => (widths = << >> /\ alloc = "ok")
     /\ AfterStep(s,
          executeCallVarargs(stepInstruction(Eng, s), s, "myprint", WordSize,
                             widths, few, alloc),
          [ op |-> "CallVarargs", s |-> s, WordSize |-> WordSize,
            widths |-> widths, few |-> few, alloc |-> alloc,
            size |-> varargsSize(WordSize, widths),
            align |-> IF requires16ByteAlignment(WordSize, widths)
                      THEN 16 ELSE 8,
            writes |-> IF few \/ alloc = "fail"
                       THEN [ at |-> << >>, after |-> << >>, offset |-> 0 ]
                       ELSE varargsWrites(WordSize, widths) ])

InitVarargs == RunStart(OptDefault, {}, 0)

NextVarargs ==
  \/ StepCallVarargs
  \/ CheckMemoryUsage
  \/ UpdateStates
  \/ StartSearch
  \/ RunReturn

SpecVarargs == InitVarargs /\ [][NextVarargs]_vars

NextMem ==
  \/ StepLoad
  \/ StepStore
  \/ CheckMemoryUsage
  \/ UpdateStates
  \/ StartSearch
  \/ RunReturn

SpecMem == InitMem /\ [][NextMem]_vars

(* ======================= claims on fork and branch ==================== *)
Live(x) == x \in DOMAIN est /\ x \notin Range(removedStates)

\* C1: on every path through fork, a returned true branch has a constraint
\* store that implies the condition and a returned false branch one that
\* implies its negation; when both are returned the true state's store is
\* the parent's store before the call plus c, the false state's the
\* parent's plus not-c.
C1_ForkBranchesImplyCondition ==
  ret.op = "fork" =>
    /\ ret.first /= NULL =>
         Models(est[ret.first].cons) \subseteq ret.cond.sat
    /\ ret.second /= NULL =>
         Models(est[ret.second].cons) \cap ret.cond.sat = {}
    /\ (ret.first /= NULL /\ ret.second /= NULL) =>
         /\ est[ret.first].cons = ret.pre.cons \cup { ret.cond }
         /\ est[ret.second].cons = ret.pre.cons \cup { createIsZero(ret.cond) }

\* a fork that split a state which already carried a constraint
C1_Witness ==
  /\ ret.op = "fork"
  /\ ret.first /= NULL /\ ret.second /= NULL
  /\ ret.pre.cons /= {}

\* the test of lines 1183-1186 on the state the call found
ForkNotAllowed ==
  \/ (opt.MaxMemoryInhibit /\ atMemoryLimit)
  \/ est[ret.s].forkDisabled
  \/ inhibitForking
  \/ (opt.MaxForks /= NoMaxForks /\ ret.pre.forks >= opt.MaxForks)

\* one branch is returned, it is the current state with one polarity of the
\* condition added, and nothing was forked
OneBranchNoFork ==
  /\ (ret.first = NULL) /= (ret.second = NULL)
  /\ ret.first /= NULL =>
       ret.first = ret.s /\ est[ret.s].cons = ret.pre.cons \cup { ret.cond }
  /\ ret.second /= NULL =>
       /\ ret.second = ret.s
       /\ est[ret.s].cons = ret.pre.cons \cup { createIsZero(ret.cond) }
  /\ addedStates = ret.pre.added
  /\ forks = ret.pre.forks

BranchBudgetReached ==
  opt.MaxForks /= NoMaxForks /\ ret.pre.forks >= opt.MaxForks

NonNull(result) == { i \in 1 .. Len(result) : result[i] /= NULL }

\* the result is parallel to the conditions and every state in it is a
\* distinct live state that holds its condition
BranchResultParallel ==
  /\ Len(ret.result) = Len(ret.conds)
  /\ \A i \in NonNull(ret.result) :
       /\ Live(ret.result[i])
       /\ ret.conds[i] \in est[ret.result[i]].cons
       /\ \A j \in NonNull(ret.result) : j /= i => ret.result[j] /= ret.result[i]

\* C7 as claimed: branch returns N entries parallel to the conditions, each
\* non-null entry a distinct live state whose store contains its condition;
\* with the fork budget reached exactly one entry is non-null, it is the
\* input state, and no state is created.
C7_BranchExactlyOne ==
  ret.op = "branch" =>
    /\ BranchResultParallel
    /\ BranchBudgetReached =>
         /\ Cardinality(NonNull(ret.result)) = 1
         /\ \A i \in NonNull(ret.result) : ret.result[i] = ret.s
         /\ nextId = ret.pre.nextId /\ addedStates = ret.pre.added

\* C7 amended: with the fork budget reached at most one entry is non-null,
\* and exactly one unless the input state is seeded and only-replay-seeds
\* is set.
C7_BranchAtMostOne ==
  ret.op = "branch" =>
    /\ BranchResultParallel
    /\ BranchBudgetReached =>
         /\ Cardinality(NonNull(ret.result)) <= 1
         /\ ~(ret.pre.seeded /\ opt.OnlyReplaySeeds) =>
              Cardinality(NonNull(ret.result)) = 1
         /\ \A i \in NonNull(ret.result) : ret.result[i] = ret.s
         /\ nextId = ret.pre.nextId /\ addedStates = ret.pre.added

\* a branch over three conditions with the budget left, and one with the
\* budget reached, are both among the reachable calls; this is the former
C7_Witness ==
  /\ ret.op = "branch"
  /\ Cardinality(NonNull(ret.result)) = 3

(* ======================== claims on Load and Store ==================== *)
\* the point just after executeInstruction, before updateStates
JustExecuted == phase \in { "checkmem", "update" } /\ ~aborted

\* the iteration's instruction is being executed in this step
Executes == phase = "select" /\ phase' \in { "checkmem", "update" }

\* the instruction ended its state with an error of this reason
EndedWith(reason) ==
  /\ ret.s \in Range(removedStates)
  /\ \E t \in testCases \ ret.pre.tests : t.st = ret.s /\ t.suffix = reason

\* the instruction neither read nor wrote a byte of any object
NoAccess ==
  /\ est[ret.s].mem = ret.pre.mem
  /\ est[ret.s].local = ret.pre.local

\* C2: every Load or Store with a non-constant address ends with the issuing
\* state terminated with an error (test case emitted, state removed), and
\* the instruction reads and writes no byte of any memory object.
C2_SymbolicAddressTerminates ==
  (JustExecuted /\ ret.op \in { "Load", "Store" } /\ ~ret.base.const)
    => (EndedWith("Ptr") /\ NoAccess)

\* the access of bytes bytes at address a lies inside an object of mem
InsideObject(mem, a, bytes) ==
  \E i \in 1 .. Len(memObjects) :
    /\ memObjects[i].name \in DOMAIN mem
    /\ memObjects[i].address <= a
    /\ a + bytes <= memObjects[i].address + memObjects[i].size

\* C3: a memory operation with a constant address that resolves to no bound
\* object, or whose byte range is not fully inside the resolved object,
\* terminates the state with a pointer error: no such write is dropped with
\* the state left alive and no such read binds a value and goes on.
C3_OutOfBoundsTerminates ==
  (/\ JustExecuted /\ ret.op \in { "Load", "Store" } /\ ret.base.const
   /\ ~InsideObject(ret.pre.mem, ret.base.a, ret.bytes))
    => EndedWith("Ptr")

\* the access lies inside a writable object of mem
InsideWritable(mem, a, bytes) ==
  \E i \in 1 .. Len(memObjects) :
    /\ memObjects[i].name \in DOMAIN mem
    /\ memObjects[i].address <= a
    /\ a + bytes <= memObjects[i].address + memObjects[i].size
    /\ ~mem[memObjects[i].name].readOnly

\* C4: after a Store of v to a constant, in-bounds address of a writable
\* object, a Load of width(v) from the same address executed next in the
\* same state yields v, whatever the address.
C4_StoreThenLoad ==
  [][ (/\ Executes /\ ~aborted'
       /\ ret.op = "Store" /\ ret.base.const
       /\ InsideWritable(ret.pre.mem, ret.base.a, ret.bytes)
       /\ ret'.op = "Load" /\ ret'.s = ret.s /\ ret'.base = ret.base
       /\ ret'.bytes = ret.bytes)
      => est'[ret.s].local = ret.value ]_vars

\* the Store of the step is a write into a read-only object of its state
WritesReadOnly ==
  /\ Executes /\ ret'.op = "Store" /\ ret'.base.const
  /\ InsideObject(ret'.pre.mem, ret'.base.a, ret'.bytes)
  /\ ~InsideWritable(ret'.pre.mem, ret'.base.a, ret'.bytes)

\* C5: an object marked read-only in a state never changes in that state and
\* its object state is never replaced; a write to it terminates the issuing
\* state with reason ReadOnly.
C5_ReadOnlyNeverChanges ==
  [][ /\ \A s \in DOMAIN est \cap DOMAIN est' :
           \A n \in DOMAIN est[s].mem :
             est[s].mem[n].readOnly =>
               (n \in DOMAIN est'[s].mem /\ est'[s].mem[n] = est[s].mem[n])
      /\ (WritesReadOnly /\ ~aborted') =>
           /\ ret'.s \in Range(removedStates')
           /\ \E t \in testCases' \ testCases :
                t.st = ret'.s /\ t.suffix = "ReadOnly" ]_vars

(* ========================= claims on the run ========================== *)
\* updateStates is the step, and its assertion held
Updates == phase = "update" /\ phase' = "select" /\ ~aborted'

\* the states an instruction created and terminated before it returned
DeletedAtOnce == { n \in nextId .. (nextId' - 1) : n \notin DOMAIN est' }

\* C8: a terminated state, once updateStates applies the termination (or at
\* once, for a state still in addedStates), is removed from the live set,
\* its leaf from the process tree and its entry from seedMap, and exactly
\* that: every other live state stays live, keeps its leaf and its seeds.
C8_TerminationRemovesExactlyOne ==
  [][ /\ Updates =>
           /\ states' = (states \cup Range(addedStates)) \ Range(removedStates)
           /\ Leaves(ptree') = Leaves(ptree) \ Range(removedStates)
           /\ DOMAIN seedMap' = DOMAIN seedMap \ Range(removedStates)
           /\ \A x \in DOMAIN seedMap' : seedMap'[x] = seedMap[x]
      /\ (Executes /\ ~aborted') =>
           /\ states' = states
           /\ \A x \in states : x \in Leaves(ptree')
           /\ \A x \in DOMAIN seedMap \ { cur' } :
                x \in DOMAIN seedMap' /\ seedMap'[x] = seedMap[x]
           /\ \A n \in DeletedAtOnce :
                /\ n \notin Range(addedStates')
                /\ n \notin Leaves(ptree')
                /\ n \notin DOMAIN seedMap' ]_vars

\* updateStates has removed a state that exited while another state, with
\* its seeds, is still live
C8_Witness ==
  /\ phase = "select" /\ ~aborted
  /\ ret.op = "Exit" /\ ret.s \notin DOMAIN est
  /\ states /= {}
  /\ DOMAIN seedMap /= {}

\* the leaves of the new tree that lie under the old leaf of c
Under(c) == { x \in DOMAIN ptree' : IsPrefix(ptree[c], ptree'[x]) }

\* every new leaf lies under the old leaf of a state that is still a leaf,
\* and that old leaf is now an internal node with leaves on both sides
ForkReplacesLeaf ==
  \A n \in DOMAIN ptree' \ DOMAIN ptree :
    \E c \in DOMAIN ptree \cap DOMAIN ptree' :
      /\ n \in Under(c) /\ c \in Under(c)
      /\ \A b \in { 0, 1 } :
           \E x \in Under(c) : IsPrefix(Append(ptree[c], b), ptree'[x])

\* C9: just after updateStates returns the leaves of the process tree are
\* the live states, and every fork or n-ary branch has replaced one leaf by
\* an internal node with two leaves.
C9_LeavesAreLiveStates ==
  [][ /\ (phase' \in { "select", "done" } /\ ~aborted') =>
           Leaves(ptree') = states'
      /\ (Executes /\ ~aborted') => ForkReplacesLeaf ]_vars

\* a Switch has split a state in three and updateStates has run
C9_Witness ==
  /\ phase = "select" /\ ~aborted
  /\ ret.op = "Switch"
  /\ Cardinality(states) = 3
  /\ Leaves(ptree) = states

\* C10: in each iteration of the main loop the selected state is live,
\* exactly one instruction is executed against it (pc stepped once, prevPC
\* the executed instruction), and the states the instruction created or
\* terminated reach the live set and the searcher only in the updateStates
\* that ends the iteration.
C10_OneInstructionPerIteration ==
  [][ /\ (Executes /\ searcherOn /\ ~aborted') =>
           /\ cur' \in states /\ cur' \in DOMAIN est
           /\ cur' \notin Range(removedStates)
           /\ instructions' = instructions + 1
           /\ est'[cur'].steppedInstructions = est[cur'].steppedInstructions + 1
           /\ est'[cur'].prevPC = est[cur'].pc
           /\ \A x \in DOMAIN est \ { cur' } : est'[x] = est[x]
      /\ (searcherOn /\ phase' \in { "checkmem", "update" }) =>
           /\ states' = states
           /\ searcherStates' = searcherStates
      /\ (Updates /\ searcherOn) =>
           /\ states' = (states \cup Range(addedStates)) \ Range(removedStates)
           /\ searcherStates' = states' ]_vars

\* under the searcher an instruction has forked and the new state is not
\* yet in the live set nor known to the searcher
C10_Witness ==
  /\ searcherOn /\ ~aborted /\ phase = "checkmem"
  /\ addedStates /= << >>
  /\ Range(addedStates) \cap (states \cup searcherStates) = {}
  /\ est[cur].steppedInstructions = 1

(* --------------------------- claims on halting ------------------------ *)
\* run returns in this step
Returns == phase = "select" /\ phase' = "done"

\* C11: once haltExecution is set no further instruction is stepped, in
\* the seeding loop or in the main loop, and when run then returns with
\* DumpStatesOnHalt every state still live has been terminated early with
\* the "Execution halting." test case and states is empty.
C11_HaltStopsExecution ==
  [][ /\ haltExecution =>
           /\ instructions' = instructions
           /\ \A s \in DOMAIN est \cap DOMAIN est' :
                est'[s].steppedInstructions = est[s].steppedInstructions
      /\ (haltExecution /\ Returns /\ opt.DumpStatesOnHalt) =>
           /\ states' = {}
           /\ ~aborted'
           /\ \A s \in states :
                [ st |-> s, msg |-> "Execution halting.", suffix |-> "early" ]
                   \in testCases' ]_vars

\* a halted run has returned after dumping a state that was still live
C11_Witness ==
  /\ phase = "done" /\ haltExecution /\ states = {}
  /\ \E t \in testCases : t.msg = "Execution halting."
  /\ instructions > 0
(* ----------------------- claims on solver failures -------------------- *)
\* C12: an instruction whose solver query fails or times out ends in a
\* state termination or a returned failure value, and the engine does not
\* abort.
C12_SolverFailureIsStructured ==
  (phase \in { "checkmem", "update" } /\ ret.op = "SwitchUnsolved") => ~aborted
LastOutsideInternal(st) ==
  LET out == { i \in 1 .. Len(st.stack) :
                 st.stack[i].kf \notin internalFunctions }
      last == CHOOSE i \in out : \A j \in out : j <= i
  IN  IF out = {} \/ last = Len(st.stack) THEN st.prevPC
      ELSE st.stack[last + 1].caller

\* prevPC when no function on the stack is internal, else the call, made
\* outside the internal functions, that entered the outermost internal one
OutermostNonInternalCall(st) ==
  LET int == { i \in 1 .. Len(st.stack) :
                 st.stack[i].kf \in internalFunctions }
  IN  IF int = {} \/ Min(int) = 1 THEN st.prevPC
      ELSE st.stack[Min(int)].caller

ErrorTests == { t \in testCases : t.suffix \in { "Exec", "Ptr" } }

\* what terminateStateOnError does when errors are recorded against the
\* instruction Recorded(state)
ErrorsRemoveAndEmitOnce(Recorded(_)) ==
  /\ ret.op = "terminateStateOnError" =>
       /\ ret.s \in Range(removedStates)
       /\ LET t == [ st |-> ret.s, msg |-> ret.msg, suffix |-> ret.reason ]
              pair == << Recorded(est[ret.s]), ret.msg >>
          IN  IF opt.EmitAllErrors THEN t \in testCases
              ELSE /\ pair \in emittedErrors
                   /\ t \in testCases <=> pair \notin ret.pre.emitted
  /\ ~opt.EmitAllErrors =>
       /\ \A t1, t2 \in ErrorTests :
            (/\ t1.msg = t2.msg
             /\ Recorded(est[t1.st]) = Recorded(est[t2.st])) => t1 = t2
       /\ \A e \in emittedErrors :
            \E t \in ErrorTests : e = << Recorded(est[t.st]), t.msg >>

\* C15 as stated: every call of terminateStateOnError removes the state;
\* with EmitAllErrors off at most one error test case is emitted over the
\* run for each pair (instruction, message) and with it on every call
\* emits one; the instruction of the pair is the last one not inside an
\* internal function.
C15_ErrorAgainstLastOutsideInternal ==
  ErrorsRemoveAndEmitOnce(LastOutsideInternal)

\* C15 amended: the same, the instruction of the pair being prevPC when no
\* function on the stack is internal and otherwise the call instruction,
\* outside the internal functions, through which the outermost internal
\* function on the stack was entered.
C15_ErrorAgainstOutermostCall ==
  ErrorsRemoveAndEmitOnce(OutermostNonInternalCall)

\* a second state has met the same error at the same instruction, reached
\* through an internal function, and was removed with no test case
C15_Witness ==
  /\ ret.op = "terminateStateOnError" /\ ~opt.EmitAllErrors
  /\ << OutermostNonInternalCall(est[ret.s]), ret.msg >> \in ret.pre.emitted
  /\ Len(est[ret.s].stack) = 3
  /\ est[1].prevPC /= est[2].prevPC
  /\ ret.s \in Range(removedStates)
  /\ \A t \in testCases : t.st /= ret.s
(* ------------------------ claims on Call and Ret ---------------------- *)
\* the values the pointer can take under the constraints
FeasibleCallees(v, cons) == { v.at[x] : x \in Models(cons) }

\* the states that have entered the function at address a
Entered(a) ==
  { x \in DOMAIN est :
      /\ Live(x)
      /\ est[x].stack[Len(est[x].stack)].kf = functionAt(a)
      /\ est[x].pc = a }

\* C16: after a call through a symbolic function pointer whose feasible
\* values are all legal functions there is one state for each feasible
\* callee, inside that callee, and no state has been terminated.
C16_SymbolicCallEntersEveryCallee ==
  (/\ phase \in { "checkmem", "update" } /\ ~aborted
   /\ ret.op = "Call" /\ ~ret.v.const
   /\ FeasibleCallees(ret.v, ret.pre.cons) \subseteq legalFunctions) =>
     /\ removedStates = << >>
     /\ \A a \in FeasibleCallees(ret.v, ret.pre.cons) :
          Cardinality(Entered(a)) = 1
\* C17: Ret in a state with one frame terminates the state with an exit
\* test case and pops nothing; with more frames it pops one frame, goes on
\* after the call (at the normal destination of an invoke) and binds the
\* returned value to the caller's register at the width of the call's
\* type, sign-extended if the call has the SExt return attribute and
\* zero-extended if not.
C17_RetPopsOneFrameAndBinds ==
  (/\ phase \in { "checkmem", "update" } /\ ~aborted /\ ret.op = "Ret"
   /\ ~(ret.isVoidReturn /\ ret.cs.used)) =>
     LET s == ret.s
         n == Len(ret.pre.stack)
         from == Len(ret.result)
         fill == IF ret.cs.isSExt /\ ret.result[from].v >= 128 THEN 255
                 ELSE 0
     IN  IF n = 1
         THEN /\ s \in Range(removedStates)
              /\ [ st |-> s, msg |-> "", suffix |-> "" ] \in testCases
              /\ est[s].stack = ret.pre.stack
         ELSE /\ Live(s)
              /\ est[s].stack = SubSeq(ret.pre.stack, 1, n - 1)
              /\ est[s].pc = IF ret.cs.invoke THEN ret.cs.normalDest
                             ELSE ret.pre.stack[n].caller + 1
              /\ IF ~ret.isVoidReturn /\ ret.cs.to /= 0
                 THEN /\ Len(est[s].local) = ret.cs.to
                      /\ \A i \in 1 .. ret.cs.to :
                           est[s].local[i] =
                             IF i <= from THEN ret.result[i]
                             ELSE ConstByte(fill)
                 ELSE est[s].local = ret.pre.local

\* a one-byte value with its top bit set has been returned to a call of
\* two bytes with the SExt attribute, and another to one without
C17_Witness ==
  /\ phase \in { "checkmem", "update" } /\ ~aborted /\ ret.op = "Ret"
  /\ Len(ret.pre.stack) = 2 /\ ~ret.isVoidReturn
  /\ ret.result = << ConstByte(255) >> /\ ret.cs.to = 2
  /\ est[ret.s].local =
       IF ret.cs.isSExt THEN << ConstByte(255), ConstByte(255) >>
       ELSE << ConstByte(255), ConstByte(0) >>
  /\ ret.cs.isSExt
(* ------------------------ claims on replay and seeds ------------------ *)
\* a fork of an unseeded state in replay-path mode whose query was answered
ReplayFork ==
  ret.op = "fork" /\ opt.hasReplayPath /\ ~ret.pre.seeded /\ ret.solverOk

\* C18: in replay-path mode a non-internal fork of an unseeded state
\* consumes the next recorded bit and returns the branch the bit names,
\* creating no state; the engine aborts when the solver proves the other
\* branch or the path is used up; an internal fork consumes no bit.
C18_ReplayConsumesOneBit ==
  /\ (ReplayFork /\ ret.isInternal) =>
        replayPosition = ret.pre.replayPosition
  /\ (ReplayFork /\ ~ret.isInternal) =>
        IF ret.pre.replayPosition >= Len(opt.replayPath) THEN aborted
        ELSE LET bit == opt.replayPath[ret.pre.replayPosition + 1]
             IN  /\ replayPosition = ret.pre.replayPosition + 1
                 /\ IF \/ (ret.res0 = "True" /\ ~bit)
                       \/ (ret.res0 = "False" /\ bit)
                    THEN aborted
                    ELSE /\ ~aborted
                         /\ nextId = ret.pre.nextId
                         /\ addedStates = << >> /\ DOMAIN est = { ret.s }
                         /\ ret.first = IF bit THEN ret.s ELSE NULL
                         /\ ret.second = IF bit THEN NULL ELSE ret.s

\* the second recorded bit has decided a fork the solver left open
C18_Witness ==
  /\ ReplayFork /\ ~ret.isInternal /\ ~aborted
  /\ ret.pre.replayPosition = 1 /\ replayPosition = 2
  /\ ret.res0 = "Unknown" /\ ret.first = ret.s /\ ret.second = NULL
\* the seeds bound to a state
seedsOf(x) == IF x \in DOMAIN seedMap THEN seedMap[x] ELSE {}

\* C19: when a seeded state forks into two children, the parent's seeds
\* are partitioned between them: each seed is with exactly the child whose
\* condition its assignment satisfies, none is duplicated, changed or lost,
\* and a child without a seed has no seedMap entry; in only-replay-seeds
\* mode a side without a seed yields no live state, after fork and after
\* branch.
C19_SeedsPartitioned ==
  /\ ( /\ ret.op = "fork"
       /\ ret.pre.seeded
       /\ ret.first /= NULL
       /\ ret.second /= NULL )
       => /\ seedsOf(ret.first) \cup seedsOf(ret.second) = ret.pre.seeds
          /\ seedsOf(ret.first) \cap seedsOf(ret.second) = {}
          /\ \A sd \in seedsOf(ret.first) : seedEvaluate(sd, ret.cond)
          /\ \A sd \in seedsOf(ret.second) : ~seedEvaluate(sd, ret.cond)
          /\ \A x \in { ret.first, ret.second } :
                x \in DOMAIN seedMap => seedMap[x] /= {}
  /\ ( /\ ret.op = "fork"
       /\ ret.pre.seeded
       /\ opt.OnlyReplaySeeds )
       => /\ (\A sd \in ret.pre.seeds : ~seedEvaluate(sd, ret.cond))
               => ret.first = NULL
          /\ (\A sd \in ret.pre.seeds : seedEvaluate(sd, ret.cond))
               => ret.second = NULL
          /\ \A x \in DOMAIN est : Live(x) => seedsOf(x) /= {}
  /\ ( /\ ret.op = "branch"
       /\ ret.pre.seeded
       /\ opt.OnlyReplaySeeds )
       => /\ \A i \in DOMAIN ret.result :
                ret.result[i] /= NULL => seedsOf(ret.result[i]) /= {}
          /\ \A x \in DOMAIN est : Live(x) => seedsOf(x) /= {}

\* a fork that split two seeds between its children
C19_Witness ==
  /\ ret.op = "fork"
  /\ ret.first /= NULL
  /\ ret.second /= NULL
  /\ seedsOf(ret.first) /= {}
  /\ seedsOf(ret.second) /= {}
  /\ Cardinality(ret.pre.seeds) = 2

\* an iteration of run on a Br, on the instruction that ends the program
BrStep ==
  phase = "select" /\ phase' \in { "checkmem", "update" } /\ ret'.op = "Br"

ExitStep ==
  phase = "select" /\ phase' \in { "checkmem", "update" } /\ ret'.op = "Exit"

\* the options that bear on fork are at their defaults
ForkOptionsDefault ==
  /\ opt.MaxDepth = 0
  /\ ~opt.MaxStaticPct
  /\ ~opt.hasReplayPath
  /\ ~opt.OnlyReplaySeeds

\* the step on a Br whose condition the constraints leave open
BrForksInTwo ==
  LET s == ret'.s
      n == nextId
      c == ret'.cond
  IN  /\ nextId' = nextId + 1
      /\ DOMAIN est' = DOMAIN est \cup {n}
      /\ addedStates' = Append(addedStates, n)
      /\ removedStates' = removedStates
      /\ testCases' = testCases
      /\ est'[s].pc = 10
      /\ est'[n].pc = 20
      /\ est'[s].cons = est[s].cons \cup {c}
      /\ est'[n].cons = est[s].cons \cup { createIsZero(c) }
      /\ Models(est'[s].cons) /= {}
      /\ Models(est'[s].cons) \subseteq c.sat
      /\ Models(est'[n].cons) /= {}
      /\ Models(est'[n].cons) \cap c.sat = {}

\* the step on the Ret of the entry frame
ExitEmitsOne ==
  LET s == ret'.s
  IN  /\ \A t \in testCases : t.st /= s
      /\ testCases' = testCases \cup { [ st |-> s, msg |-> "", suffix |-> "" ] }
      /\ s \in Range(removedStates')
      /\ Models(est[s].cons) /= {}

\* C20: a conditional Br whose condition the state's constraints neither
\* imply nor refute, forking being allowed, leaves exactly two states, the
\* true state at successor 0 and the false state at successor 1, with the
\* condition and its negation added to their satisfiable stores; a state
\* that executes Ret in the entry frame is terminated with exactly one test
\* case, drawn from its store; no step takes a constraint from a state.
C20_BrThenExitGivesTwoTests ==
  [][ /\ ( /\ BrStep
           /\ ~aborted'
           /\ ret'.solverOk
           /\ ~ret'.cond.const
           /\ evaluate(est[ret'.s].cons, ret'.cond) = "Unknown"
           /\ ~forkInhibited(Eng, ret'.s)
           /\ ForkOptionsDefault ) => BrForksInTwo
      /\ ( /\ ExitStep
           /\ ~aborted'
           /\ ~opt.OnlyOutputStatesCoveringNew ) => ExitEmitsOne
      /\ \A x \in DOMAIN est \cap DOMAIN est' :
            est[x].cons \subseteq est'[x].cons ]_vars

\* the run of one Br and two Rets has ended: two states terminated, one
\* test case each
C20_Witness ==
  /\ phase = "done"
  /\ ~aborted
  /\ ~haltExecution
  /\ ret.op = "Exit"
  /\ nextId = 3
  /\ states = {}
  /\ testCases = { [ st |-> 1, msg |-> "", suffix |-> "" ],
                   [ st |-> 2, msg |-> "", suffix |-> "" ] }

\* what a fork that only returns the current state leaves alone
ForkLeavesEngine ==
  /\ nextId = ret.pre.nextId
  /\ DOMAIN est = { ret.s }
  /\ addedStates = ret.pre.added
  /\ removedStates = << >>
  /\ ptree = ret.pre.ptree
  /\ forks = ret.pre.forks
  /\ est[ret.s].cons = ret.pre.cons

C22_SymbolicStoreSplitsInAndOut ==
  (JustExecuted /\ ret.op = "Store" /\ ~ret.base.const /\ ret.bytes = 1)
    => /\ \E x \in DOMAIN est :
            Live(x) /\ \E c \in est[x].cons : ~c.const
       /\ \E t \in testCases \ ret.pre.tests : t.suffix = "Ptr"

\* the values the freed pointer could take when free was called
FreeVals ==
  { ret.p.at[x] : x \in Models(ret.pre.est[ret.s].cons) }

\* the objects bound in the calling state whose base the pointer could be
FreeBases ==
  { mo \in Range(memObjects) :
      /\ mo.name \in DOMAIN ret.pre.est[ret.s].mem
      /\ mo.address \in FreeVals }

FreeStackOrGlobal == { mo \in FreeBases : mo.isLocal \/ mo.isGlobal }

FreeHeapBases == FreeBases \ FreeStackOrGlobal

\* the pointer could be a non-null address that is the base of no bound
\* object
FreeInvalid ==
  \E v \in FreeVals : v /= 0 /\ \A mo \in FreeBases : mo.address /= v

\* the calling state and the states forked from it by the call
FreeStates == { ret.s } \cup (ret.pre.nextId .. (nextId - 1))

FreeLive == { x \in FreeStates : Live(x) }

FreeEnded == FreeStates \ FreeLive

FreePtrOf(x) == { ret.p.at[v] : v \in Models(est[x].cons) }

\* the free was a no-op in x
FreeNoOp(x) ==
  /\ FreePtrOf(x) = {0}
  /\ est[x].mem = ret.pre.est[ret.s].mem
  /\ est[x].local = << ConstByte(0) >>

\* x performed the free of mo
FreeUnbound(x, mo) ==
  /\ FreePtrOf(x) = { mo.address }
  /\ DOMAIN est[x].mem = DOMAIN ret.pre.est[ret.s].mem \ { mo.name }
  /\ \A n \in DOMAIN est[x].mem : est[x].mem[n] = ret.pre.est[ret.s].mem[n]
  /\ est[x].local = << ConstByte(0) >>

\* an error with this message was reported for the call, or had been
\* reported for its instruction before
FreeError(msg, reason) ==
  /\ << ret.pre.est[ret.s].pc, msg >> \in emittedErrors
  /\ \/ << ret.pre.est[ret.s].pc, msg >> \in ret.pre.emitted
     \/ \E t \in testCases \ ret.pre.tests :
          t.st \in FreeEnded /\ t.msg = msg /\ t.suffix = reason

ArgVals(a) == { a.at[x] : x \in Models(ret.pre.cons) }

\* the policy permits the call
ExtPermitted ==
  /\ opt.ExternalCalls = "none" => ret.f \in okExternals
  /\ opt.ExternalCalls /= "all" =>
        \A i \in 1 .. Len(ret.arguments) :
           Cardinality(ArgVals(ret.arguments[i])) = 1

\* C24: a call of an external function that the special function handler
\* does not take reaches the external dispatcher only if the policy
\* permits it: under none only for the names of okExternals, under none
\* and concrete only with every argument unique under the constraints and
\* passed with that value, under all with a feasible value for each
\* argument; when the policy does not permit it the state is terminated
\* and the dispatcher is not called.
C24_DispatcherOnlyWhenPermitted ==
  (JustExecuted /\ ret.op = "External")
    => /\ ret.call /= << >>
            => /\ ~ret.nd.handled
               /\ ExtPermitted
               /\ ret.call[1].f = ret.f
               /\ Len(ret.call[1].args) = Len(ret.arguments)
               /\ \A i \in 1 .. Len(ret.arguments) :
                    ret.call[1].args[i].v \in ArgVals(ret.arguments[i])
       /\ (~ret.nd.handled /\ ~ExtPermitted)
            => /\ ret.call = << >>
               /\ ret.s \in Range(removedStates)

\* under all the dispatcher was given a value of an argument that has
\* several
C24_Witness ==
  /\ JustExecuted
  /\ ret.op = "External"
  /\ ret.call /= << >>
  /\ opt.ExternalCalls = "all"
  /\ \E i \in 1 .. Len(ret.arguments) :
        Cardinality(ArgVals(ret.arguments[i])) > 1

\* C25: after toConstant has returned v for e, every model of the state's
\* constraint store gives e the value v, v was a value of e in a model of
\* the store before the call and the store is satisfiable; if e simplified
\* to a constant the store and the seeds are as before.
C25_ToConstantPinsFeasibleValue ==
  (ret.op = "toConstant" /\ ~aborted)
    => /\ \A x \in Models(est[ret.s].cons) : ret.e.at[x] = ret.value
       /\ \E x \in Models(ret.pre.cons) : ret.e.at[x] = ret.value
       /\ Models(est[ret.s].cons) /= {}
       /\ ret.pre.cons \subseteq est[ret.s].cons
       /\ ret.simplified
            => /\ est[ret.s].cons = ret.pre.cons
               /\ seedsOf(ret.s) = ret.pre.seeds

\* an expression with several feasible values was pinned to one of them
C25_Witness ==
  /\ ret.op = "toConstant"
  /\ ~aborted
  /\ Cardinality({ ret.e.at[x] : x \in Models(ret.pre.cons) }) > 1
  /\ ret.pre.cons /= {}
  /\ est[ret.s].cons /= ret.pre.cons

(* ------------------------------- C26 ---------------------------------- *)
SwitchStepped == JustExecuted /\ ret.op = "Switch"

\* the values the condition can take before the Switch, and their blocks
SwitchVals == Models(ret.pre.cons)

SwitchFeasibleBlocks == { findCaseValue(ret.si, v) : v \in SwitchVals }

\* the values that lead to block bb: its cases, or for the default block
\* every value that is not a case leading elsewhere
SwitchValsOf(bb) ==
  IF bb = ret.si.dflt
  THEN { v \in Dom : findCaseValue(ret.si, v) = bb }
  ELSE { v \in SwitchVals : findCaseValue(ret.si, v) = bb }

\* C26: a Switch on a condition that is not unique passes branch pairwise
\* exclusive conditions, one for each distinct feasible successor block and
\* none for an infeasible one, the condition of a block being the
\* disjunction of its case values and that of the default the negation of
\* the cases leading elsewhere, and every non-null resulting state is
\* constrained by its condition and transferred to the block of it; on a
\* unique condition nothing is forked and the state goes to the block of
\* the value, its case or the default.
C26_SwitchConditionsPartitionSuccessors ==
  SwitchStepped =>
    IF ret.unique
    THEN /\ ret.result = << >>
         /\ nextId = ret.pre.nextId
         /\ forks = ret.pre.forks
         /\ addedStates = ret.pre.added
         /\ est[ret.s].cons = ret.pre.cons
         /\ \A v \in SwitchVals : est[ret.s].pc = findCaseValue(ret.si, v)
    ELSE /\ Len(ret.bbOrder) = Len(ret.conds)
         /\ Len(ret.result) = Len(ret.conds)
         /\ \A i, j \in 1 .. Len(ret.conds) :
              i /= j => /\ ret.conds[i].sat \cap ret.conds[j].sat = {}
                        /\ ret.bbOrder[i] /= ret.bbOrder[j]
         /\ Range(ret.bbOrder) = SwitchFeasibleBlocks
         /\ \A i \in 1 .. Len(ret.conds) :
              /\ ret.conds[i].sat = SwitchValsOf(ret.bbOrder[i])
              /\ ret.result[i] /= NULL =>
                   /\ est[ret.result[i]].pc = ret.bbOrder[i]
                   /\ ret.conds[i] \in est[ret.result[i]].cons
                   /\ Models(est[ret.result[i]].cons)
                        = SwitchVals \cap ret.conds[i].sat

\* a Switch whose cases 0 and 1 share a block has forked into that block
\* under the disjunction of the two cases and into the default block
C26_Witness ==
  /\ SwitchStepped /\ ~ret.unique
  /\ Len(ret.conds) = 2
  /\ ret.conds[1].sat = {0, 1}
  /\ ret.bbOrder[2] = ret.si.dflt
  /\ \A i \in 1 .. 2 : ret.result[i] /= NULL
  /\ ret.result[1] /= ret.result[2]

\* a Switch on a unique condition has gone to the default block
C26_WitnessUnique ==
  /\ SwitchStepped /\ ret.unique
  /\ est[ret.s].pc = ret.si.dflt
  /\ DOMAIN ret.si.succ /= {}

\* a Switch under an exhausted fork budget has left a null state
C26_WitnessNull ==
  /\ SwitchStepped /\ ~ret.unique
  /\ \E i \in 1 .. Len(ret.result) : ret.result[i] = NULL

(* ------------------------------- C27 ---------------------------------- *)
IndirectStepped ==
  phase \in { "checkmem", "update" } /\ ret.op = "IndirectBr" /\ ~ret.unique

\* the states the IndirectBr has given the destination d
IndirectGuarded(d) ==
  { i \in 1 .. Len(ret.targets) :
      /\ ret.targets[i] = d /\ ret.result[i] /= NULL
      /\ ret.result[i] \in DOMAIN est
      /\ est[ret.result[i]].pc = d
      /\ Models(est[ret.result[i]].cons) = Models(ret.pre.cons) \cap {d} }

\* the states of the IndirectBr that were ended by it
IndirectEnded == { x \in Range(ret.result) \ {NULL} : ~Live(x) }

\* the last state is constrained by the errorCase and ended with the error
IndirectErrorState(x) ==
  /\ x = ret.result[Len(ret.result)]
  /\ x \in DOMAIN est => indirectErrorCase(ret.bi) \in est[x].cons
  /\ \E e \in emittedErrors : e[2] = "indirectbr: illegal label address"

\* C27: an IndirectBr on a symbolic address gives every feasible distinct
\* destination one guarded state transferred to it, and when the errorCase
\* is satisfiable exactly one state constrained by it is produced and
\* terminated with the illegal-label error, also under an exhausted fork
\* budget, where no null state is dereferenced.
C27_IndirectBrErrorCaseTerminated ==
  IndirectStepped =>
    /\ ~aborted
    /\ ~ret.nullDeref
    /\ \A d \in Models(ret.pre.cons) \cap Range(ret.bi) :
         Cardinality(IndirectGuarded(d)) = 1
    /\ ret.errorCase => /\ Cardinality(IndirectEnded) = 1
                         /\ \A x \in IndirectEnded : IndirectErrorState(x)

\* the same with forking allowed
C27_WithinForkBudget ==
  (IndirectStepped /\ opt.MaxForks = NoMaxForks)
    => C27_IndirectBrErrorCaseTerminated

(* ------------------------------- C28 ---------------------------------- *)
LimitChecked == phase = "update" /\ ret.op = "checkMemoryUsage"

\* checkMemoryUsage has read the memory in use
LimitSampled == opt.MaxMemory /= 0 /\ instructions % 65536 = 0

\* the states checkMemoryUsage has terminated, in the order of the calls
LimitKilled ==
  SubSeq(removedStates, Len(ret.pre.removed) + 1, Len(removedStates))

\* max(1, n - n * max-memory / usage) in unsigned arithmetic
LimitToKill ==
  LET n == Cardinality(ret.pre.states)
      guess == n - ((n * opt.MaxMemory) \div ret.mbs)
  IN  IF guess >= 1 THEN guess ELSE 1

LimitAfterCall ==
  LimitChecked =>
    /\ IsPrefix(ret.pre.removed, removedStates)
    /\ IF ~LimitSampled
       THEN /\ atMemoryLimit = ret.pre.atMemoryLimit
            /\ LimitKilled = << >>
            /\ testCases = ret.pre.tests
       ELSE /\ atMemoryLimit = (ret.mbs > opt.MaxMemory)
            /\ IF ret.mbs > opt.MaxMemory + 100
               THEN /\ Len(LimitKilled) = LimitToKill
                    /\ Len(LimitKilled) <= Cardinality(ret.pre.states)
                    /\ Range(LimitKilled) \subseteq ret.pre.states
                    /\ \A i, j \in 1 .. Len(LimitKilled) :
                         i /= j => LimitKilled[i] /= LimitKilled[j]
               ELSE /\ LimitKilled = << >>
                    /\ testCases = ret.pre.tests

\* only a call of checkMemoryUsage that samples changes atMemoryLimit
LimitFlagChanges ==
  atMemoryLimit' /= atMemoryLimit =>
    /\ phase = "checkmem"
    /\ opt.MaxMemory /= 0 /\ instructions % 65536 = 0

C29_StackWithinLimit ==
  opt.RuntimeMaxStackFrames > 0 =>
    \A x \in DOMAIN est :
      Live(x) => Len(est[x].stack) <= opt.RuntimeMaxStackFrames

\* what the test of executeCall gives: one frame more than the limit
C29_StackWithinLimitPlusOne ==
  opt.RuntimeMaxStackFrames > 0 =>
    \A x \in DOMAIN est :
      Live(x) => Len(est[x].stack) <= opt.RuntimeMaxStackFrames + 1

\* a call made over the limit has ended the state early
C29_LimitReached ==
  \E tc \in testCases : tc.msg = "Maximum stack size reached."

(* ------------------------------- C30 ---------------------------------- *)
\* removedStates holds no state twice
RemovedOnce ==
  \A i, j \in 1 .. Len(removedStates) :
    i /= j => removedStates[i] /= removedStates[j]

\* the assertion of updateStates: every removed state is in states
RemovedAreMembers == Range(removedStates) \subseteq states

\* C30: between two consecutive calls of updateStates no state is
\* terminated more than once: removedStates never holds a state twice,
\* every state in it is a member of the live set when updateStates runs,
\* whose assertion holds, across the instruction handlers and
\* checkMemoryUsage.
C30_NoStateTerminatedTwice ==
  /\ RemovedOnce
  /\ phase = "update" => RemovedAreMembers
  /\ ~aborted

\* the same for the instruction handlers alone, before checkMemoryUsage
C30_HandlersTerminateOnce ==
  phase = "checkmem" => RemovedOnce /\ RemovedAreMembers /\ ~aborted

(* ------------------------------- C31 ---------------------------------- *)
\* C31: at every scheduler step the constraint store of every live state
\* is satisfiable: every constraint added by fork, branch, toConstant and
\* by the indirect-call handler is feasible under the store it is added to.
C31_LiveStoresSatisfiable ==
  (phase = "select" /\ ~aborted) =>
    \A x \in DOMAIN est : Live(x) => Models(est[x].cons) /= {}

(* ------------------------------- C32 ---------------------------------- *)
\* a Store was executed by a state whose own history (its own and its
\* ancestors' instructions) holds no Store through a non-constant address,
\* the only Store that registers a name
StoreOfUnregisteredState ==
  /\ phase \in { "checkmem", "update" }
  /\ ret.op = "Store" /\ ret.own

\* C32: the effect of a Store executed in a state S (the write performed or
\* skipped, an address registered as a function-pointer location) depends
\* only on S and the instruction, not on the Stores other states have
\* executed before: S is left with the memory and bookkeeping it is left
\* with in the run where the other states executed no Store.
C32_StoreEffectIsPerState ==
  StoreOfUnregisteredState =>
    storeEffect(Eng, ret.s, Len(ret.pre.fpAddress)) = ret.alone

(* ------------------------------- C33 ---------------------------------- *)
StoreToConstant ==
  /\ phase \in { "checkmem", "update" }
  /\ ret.op = "Store" /\ ret.base.const

\* C33: a Store with a constant address invokes the memory write
\* (executeMemoryOperation with isWrite) at most once, whether the value is
\* constant or symbolic and the base registered or not.
C33_StoreWritesAtMostOnce == StoreToConstant => ret.writes <= 1

\* the same for the stores of constants and the stores to addresses that
\* are not registered
C33_PlainStoreWritesAtMostOnce ==
  (/\ StoreToConstant
   /\ \/ isConstantExpr(ret.value)
      \/ ret.base.a \notin Range(ret.pre.fpAddress))
    => ret.writes <= 1

(* ------------------------------- C34 ---------------------------------- *)
CallStepped == JustExecuted /\ ret.op = "Call"

\* the issuing state and the states forked while the callee was resolved
CallResults == { ret.s } \cup Range(addedStates)

\* the state is inside a callee: a frame was pushed on the issuing stack
CallEntered(x) == Len(est[x].stack) = Len(ret.pre.stack) + 1

\* C34: after a Call through a function pointer every live state that
\* results from it, the issuing state and every state forked while the
\* callee was resolved, has entered a callee; the others were terminated.
C34_NoStatePassesTheCallSite ==
  CallStepped => \A x \in CallResults : Live(x) => CallEntered(x)

\* the same for the calls through a constant pointer
C34_ConstantCallEntersOrEnds ==
  (CallStepped /\ ret.v.const)
    => \A x \in CallResults : Live(x) => CallEntered(x)

(* ------------------------------- C35 ---------------------------------- *)
\* nme_req has built the request list for a state other than last_state
NmeSwitched == nmeCall.pc = "copy" /\ ~nmeCall.same

\* the length of the longest common prefix of two histories
CommonPrefix(S, L) ==
  CHOOSE n \in 0 .. Len(S) :
    /\ n <= Len(L)
    /\ SubSeq(S, 1, n) = SubSeq(L, 1, n)
    /\ \A m \in (n + 1) .. Len(S) :
         m > Len(L) \/ SubSeq(S, 1, m) /= SubSeq(L, 1, m)

\* the requests of L beyond the common prefix, the last first, malloc and
\* free swapped, then the requests of S beyond the common prefix
UndoRedo(S, L) ==
  LET c == CommonPrefix(S, L)
  IN  [ n \in 1 .. (Len(L) - c) |->
          [ L[Len(L) - n + 1] EXCEPT !.req = 3 - @ ] ]
        \o SubSeq(S, c + 1, Len(S))

\* the objects a history leaves allocated
HeapOf(S) == helperHeap({}, S, Len(S))

\* C35: for a state different from last_state the request list of nme_req
\* is the undo of last_state's requests beyond the common prefix of the two
\* histories followed by the new state's requests beyond it, and on a
\* native heap that reflects last_state's history it yields the heap of the
\* new state's history.
C35_RequestListUndoesAndRedoes ==
  NmeSwitched =>
    /\ nmeCall.v = UndoRedo(nmeCall.S, nmeCall.L)
    /\ nativeHeap.live = HeapOf(nmeCall.L) =>
         helperHeap(nativeHeap.live, nmeCall.v, Len(nmeCall.v))
           = HeapOf(nmeCall.S)

\* the list is the undo and redo when the histories part at the new
\* state's last executed request
C35_ListOfOneRequestEach ==
  (/\ NmeSwitched
   /\ CommonPrefix(nmeCall.S, nmeCall.L) = Len(nmeCall.S) - 1
   /\ CommonPrefix(nmeCall.S, nmeCall.L) >= 1
   /\ Len(nmeCall.L) = Len(nmeCall.S))
    => nmeCall.v = UndoRedo(nmeCall.S, nmeCall.L)

(* ------------------------------- C36 ---------------------------------- *)
\* C36: nme_req reads heap_allocs[i] of either state only with i inside
\* the vector, and the request vector it copies into the shared buffer is
\* never empty.
C36_RequestVectorNeverEmpty ==
  nmeCall.pc /= "idle" => (~nmeCall.oob /\ nmeCall.v /= << >>)

\* the request of the state that made the last request is never empty
C36_SameStateRequestIsOne ==
  (nmeCall.pc /= "idle" /\ nmeCall.same) => Len(nmeCall.v) = 1

(* ------------------------------- C37 ---------------------------------- *)
\* the buffer and the count are written when the flag is set
NmeWrittenBeforeFlag ==
  (kn_indicator.flag = 1 /\ ~nativeHeap.serving) =>
    /\ nmeCall.pc = "wait"
    /\ SubSeq(nme_buf, 1, Len(nmeCall.v)) = nmeCall.v
    /\ kn_indicator.num = Len(nmeCall.v)

\* while the flag is set the engine does nothing and nme_req reads nothing
NmeWaits ==
  kn_indicator.flag = 1 =>
    /\ UNCHANGED << states, addedStates, removedStates, est, instructions,
                    phase, cur, last_state, ret >>
    /\ nmeCall' = nmeCall

\* nme_req has returned from a request
NmeReturned ==
  phase \in { "checkmem", "update" } /\ ret.op \in { "Malloc", "Free" }

\* the address recorded is that of the last response entry
NmeLastResponse ==
  NmeReturned =>
    /\ ret.num >= 1
    /\ ret.address = ret.buf[ret.num].nativeAddress
    /\ ~aborted =>
         est[ret.s].heap_allocs[Len(est[ret.s].heap_allocs)].nativeAddress
           = ret.address

NmeLastState == NmeReturned => last_state = ret.s

\* C37: nme_req writes the buffer and the count before it sets the flag,
\* does nothing until the helper has cleared the flag, records the address
\* of the last response entry (index num-1) and leaves last_state at the
\* requesting state.
C37_HandshakeAndLastResponse ==
  /\ [][NmeWaits]_vars
  /\ [](NmeWrittenBeforeFlag /\ NmeLastResponse /\ NmeLastState)

\* the same without the response entry
C37_HandshakeOrder ==
  /\ [][NmeWaits]_vars
  /\ [](NmeWrittenBeforeFlag /\ NmeLastState)

(* ------------------------------- C38 ---------------------------------- *)
\* a Store has traced its operand back: the base is registered and an
\* instruction of the function defines the operand
StoreTraced ==
  /\ phase \in { "checkmem", "update" }
  /\ ret.op = "Store" /\ "trace" \in DOMAIN ret
  /\ ret.traced /\ ret.nd.def >= 0

\* C38: the back-tracing loop of the Store handler terminates for every
\* function body and every instruction index it uses lies in
\* [0, numInstructions), also when no Load precedes the defining
\* instruction.
C38_BacktraceEndsWithinTheBody ==
  StoreTraced =>
    /\ ~ret.trace.crash
    /\ ret.trace.used \subseteq 0 .. (Len(ret.nd.body) - 1)

\* the same when the first read finds no Load and the nearest Load at or
\* before the defining instruction is of a pointer or not the first
\* instruction of the function
C38_BacktraceWithLoadInReach ==
  (/\ StoreTraced
   /\ ret.nd.first = "Other"
   /\ \E j \in 1 .. (ret.nd.def + 1) :
        /\ ret.nd.body[j] \in { "LoadPtr", "Load" }
        /\ ret.nd.body[j] = "Load" => j > 1
        /\ \A m \in (j + 1) .. (ret.nd.def + 1) :
             ret.nd.body[m] \notin { "LoadPtr", "Load" })
    => /\ ~ret.trace.crash
       /\ ret.trace.used \subseteq 0 .. (Len(ret.nd.body) - 1)

(* ------------------------------- C39 ---------------------------------- *)
\* a variadic call has allocated the varargs object and written into it
VarargsWritten ==
  /\ JustExecuted /\ ret.op = "CallVarargs"
  /\ ~ret.few /\ ret.alloc = "ok"

\* the bytes argument i occupies: from its write to the offset after it
VarargsOccupied(i) == ret.writes.after[i] - ret.writes.at[i]

\* where the arguments before argument i end
VarargsBefore(i) == IF i = 1 THEN 0 ELSE ret.writes.after[i - 1]

\* C39: for a call of a variadic function the size computed for the varargs
\* object is the offset reached after the last argument was written, so
\* every write lies inside the object; with 64 bit words an argument takes
\* its width rounded up to a multiple of 64 bits and one wider than 64 bits
\* starts at a multiple of 16 bytes; with 32 bit words it takes its minimal
\* number of bytes.
C39_VarargsSizeIsTheFinalOffset ==
  VarargsWritten =>
    /\ ret.size = ret.writes.offset
    /\ Len(ret.writes.at) = Len(ret.widths)
    /\ ret.widths /= << >> =>
         ret.writes.offset = ret.writes.after[Len(ret.widths)]
    /\ \A i \in 1 .. Len(ret.widths) :
         LET w == ret.widths[i]
             bytes == IF w % 8 = 0 THEN w \div 8 ELSE w \div 8 + 1
             words == IF w % 64 = 0 THEN w \div 64 ELSE w \div 64 + 1
         IN  /\ ret.writes.at[i] >= VarargsBefore(i)
             /\ ret.writes.at[i] + bytes <= ret.size
             /\ ret.WordSize = 64 =>
                  /\ VarargsOccupied(i) = 8 * words
                  /\ w > 64 => ret.writes.at[i] % 16 = 0
                  /\ w <= 64 => ret.writes.at[i] = VarargsBefore(i)
             /\ ret.WordSize = 32 =>
                  /\ VarargsOccupied(i) = bytes
                  /\ ret.writes.at[i] = VarargsBefore(i)

\* an i32 followed by an x86_fp80 with 64 bit words: the second argument
\* is moved up to offset 16 and the object has 32 bytes
C39_Witness ==
  /\ VarargsWritten
  /\ ret.WordSize = 64 /\ ret.widths = << 32, 80 >>
  /\ ret.writes.at = << 0, 16 >> /\ ret.size = 32
  /\ Len(est[ret.s].stack) = 2

\* the minimal byte counts with 32 bit words
C39_Witness32 ==
  /\ VarargsWritten
  /\ ret.WordSize = 32 /\ ret.widths = << 1, 80 >>
  /\ ret.writes.at = << 0, 1 >> /\ ret.size = 11
====
